---- MODULE Spec2Model ----
(***************************************************************************)
(* deno-tsc-helper: generateTypes (src/mod.js) as a state machine.         *)
(*                                                                         *)
(* The persistent state is the content of the output directory             *)
(* (.denoTypes): cacheFile.json, the vendor tree, tsconfig.json, the       *)
(* ambient module file, and the temporary import map in the cwd.  One run  *)
(* of generateTypes is a sequence of steps, one per awaited file or        *)
(* network operation; a run can stop at any step (process death or a       *)
(* thrown error), which leaves the files as they are at that moment.       *)
(***************************************************************************)
EXTENDS Integers, Sequences, FiniteSets, TLC

\* ------------------------------------------------------------------ bounds

\* Longest list of import statements found in the user's files.
MaxImports == 2

\* Runs of generateTypes in one history of the output directory.
MaxRuns == 3

\* Times the user changes the project (its imports, the excludeUrls option)
\* between two runs.
MaxEdits == 1

\* ---------------------------------------------------------------- universe

UrlA == "https://x/a.ts"
UrlB == "https://x/b.ts"
UrlBdts == "https://x/b.d.ts"
UrlAdts == "https://x/a.d.ts"
UrlN == "npm:p@1.0.0"
AliasA == "a"

OutDir == "/proj/.denoTypes"
PathA == "/proj/.denoTypes/vendor/x/a.ts"
PathB == "/proj/.denoTypes/vendor/x/b.ts"
PathBdts == "/proj/.denoTypes/vendor/x/b.d.ts"
PathAdts == "/proj/.denoTypes/vendor/x/a.d.ts"
PathImportMap == "/proj/.denoTypes/vendor/import_map.json"
PathNpmTypes == "/proj/.denoTypes/npmTypes/p/1.0.0/index.d.ts"

\* The empty object {} / the empty Map.
EmptyObj == << >>

\* Object spread {...a, ...b}: the keys of b win.
Merge(a, b) ==
    [k \in (DOMAIN a) \cup (DOMAIN b) |-> IF k \in DOMAIN b THEN b[k] ELSE a[k]]

Range(s) == {s[i] : i \in DOMAIN s}

\* The elements of a sequence in order of first occurrence (a JS Set / Map
\* keeps insertion order).
RECURSIVE Dedup(_)
Dedup(s) ==
    IF s = << >> THEN << >>
    ELSE LET r == Dedup(SubSeq(s, 1, Len(s) - 1))
         IN IF s[Len(s)] \in Range(r) THEN r ELSE Append(r, s[Len(s)])

\* ------------------------------------------------------- the user's project

\* The import statements of the included user files, in collection order
\* (file by file): each is an import of a literal specifier in a file.
ImportData(file, spec) == [importerFilePath |-> file, importSpecifier |-> spec]

UserImportStatements ==
    { ImportData("/proj/f1.js", AliasA),
      ImportData("/proj/f2.js", UrlA),
      ImportData("/proj/f2.js", UrlN) }

\* The statements in the order the collector meets them: f1.js before
\* f2.js, and the statements of f2.js from top to bottom.
CollectionOrder ==
    << ImportData("/proj/f1.js", AliasA),
       ImportData("/proj/f2.js", UrlA),
       ImportData("/proj/f2.js", UrlN) >>

\* The projects generateTypes is run in: the files hold at most MaxImports
\* of the import statements.
UserImportsChoices ==
    { LET Present(imp) == imp \in stmts IN SelectSeq(CollectionOrder, Present) :
        stmts \in {S \in SUBSET UserImportStatements : Cardinality(S) <= MaxImports} }

\* The excludeUrls option values tried.
ExcludeUrlsChoices == { {}, {AliasA}, {UrlA} }

\* The user's import map: "a" is an alias of https://x/a.ts.
UserImportMap == [x \in {AliasA} |-> UrlA]

\* resolveModuleSpecifier(importMap, baseUrl, specifier) of the import_maps
\* library for the specifiers of this universe: a key of the map resolves to
\* its target, a relative specifier against the base, a URL to itself.
RelativeTargets ==
    [p \in {PathA, PathB, PathBdts, PathAdts} |->
        [s \in {"./a.ts", "./b.ts"} |->
            IF s = "./a.ts" THEN "file:///proj/.denoTypes/vendor/x/a.ts"
            ELSE "file:///proj/.denoTypes/vendor/x/b.ts"]]

resolveModuleSpecifier(importMap, basePath, specifier) ==
    IF specifier \in DOMAIN importMap THEN importMap[specifier]
    ELSE IF specifier \in {"./a.ts", "./b.ts"} THEN RelativeTargets[basePath][specifier]
    ELSE IF specifier = "./local.js" THEN "file:///proj/local.js"
    ELSE specifier

FileUrls ==
    { "file:///proj/.denoTypes/vendor/x/a.ts",
      "file:///proj/.denoTypes/vendor/x/b.ts",
      "file:///proj/.denoTypes/dummyModule.js",
      "file:///proj/local.js" }

\* URL.protocol
Protocol(url) ==
    IF url \in FileUrls THEN "file:"
    ELSE IF url = UrlN THEN "npm:"
    ELSE "https:"

toFileUrl ==
    [p \in {PathA, PathB} |->
        CASE p = PathA -> "file:///proj/.denoTypes/vendor/x/a.ts"
          [] p = PathB -> "file:///proj/.denoTypes/vendor/x/b.ts"]

fromFileUrl(url) ==
    CASE url = "file:///proj/.denoTypes/vendor/x/a.ts" -> PathA
      [] url = "file:///proj/.denoTypes/vendor/x/b.ts" -> PathB
      [] url = "file:///proj/.denoTypes/dummyModule.js" -> "/proj/.denoTypes/dummyModule.js"
      [] url = "file:///proj/local.js" -> "/proj/local.js"

\* Paths below the output directory (common([path, outputDir]) = outputDir).
InOutputDir(path) ==
    path \in {PathA, PathB, PathBdts, PathAdts, PathImportMap, PathNpmTypes,
              "/proj/.denoTypes/dummyModule.js"}

\* ------------------------------------------------------------ collectImports

\* collectImports (src/src/collectImports.js): the excluded literal
\* specifiers need an ambient module; the others are resolved against the
\* user's import map and kept unless the resolved URL is excluded or local.
RemoteImportData(imp, resolved) ==
    [importerFilePath |-> imp.importerFilePath,
     importSpecifier |-> imp.importSpecifier,
     resolvedSpecifier |-> resolved]

\* A list of the excluded literal specifiers that keeps every occurrence.
collectNeedsAmbient_EveryOccurrence(allImports, excludeUrls) ==
    LET Excluded(imp) == imp.importSpecifier \in excludeUrls
        hits == SelectSeq(allImports, Excluded)
    IN [i \in 1..Len(hits) |-> hits[i].importSpecifier]

collectNeedsAmbient(allImports, excludeUrls) ==
    LET Excluded(imp) == imp.importSpecifier \in excludeUrls
        hits == SelectSeq(allImports, Excluded)
    IN Dedup([i \in 1..Len(hits) |-> hits[i].importSpecifier])

\* A collector that checks only the literal specifier against excludeUrls.
collectRemoteImports_LiteralOnly(allImports, excludeUrls, userImportMap) ==
    LET Resolved(imp) ==
            resolveModuleSpecifier(userImportMap, imp.importerFilePath, imp.importSpecifier)
        Keep(imp) ==
            /\ imp.importSpecifier \notin excludeUrls
            /\ Protocol(Resolved(imp)) # "file:"
        kept == SelectSeq(allImports, Keep)
    IN [i \in 1..Len(kept) |-> RemoteImportData(kept[i], Resolved(kept[i]))]

collectRemoteImports(allImports, excludeUrls, userImportMap) ==
    LET Resolved(imp) ==
            resolveModuleSpecifier(userImportMap, imp.importerFilePath, imp.importSpecifier)
        Keep(imp) ==
            /\ imp.importSpecifier \notin excludeUrls
            /\ Resolved(imp) \notin excludeUrls
            /\ Protocol(Resolved(imp)) # "file:"
        kept == SelectSeq(allImports, Keep)
    IN [i \in 1..Len(kept) |-> RemoteImportData(kept[i], Resolved(kept[i]))]

collectImports(allImports, excludeUrls, userImportMap) ==
    [remoteImports |-> collectRemoteImports(allImports, excludeUrls, userImportMap),
     needsAmbientModuleImportSpecifiers |-> collectNeedsAmbient(allImports, excludeUrls)]

\* --------------------------------------------------------- remote modules

\* A file is a sequence of lines; a line is its kind and the text that
\* matters for it (the specifier of an import, the url of a @deno-types
\* comment).
Line(kind, text) == [kind |-> kind, text |-> text]

modifiedComment == Line("modifiedComment", "// tsc_helper_modified")
tsNocheck == Line("tsNocheck", "// @ts-nocheck")

\* What the network serves for each module url.
RemoteSource(url) ==
    CASE url = UrlA -> << Line("reference", "/// <reference"),
                          Line("denoTypes", UrlBdts),
                          Line("import", "./b.ts"),
                          Line("code", "a") >>
      [] url = UrlB -> << Line("shebang", "#!"),
                          Line("denoTypes", UrlAdts),
                          Line("import", "./a.ts"),
                          Line("code", "b") >>
      [] url = UrlBdts -> << Line("code", "b.d.ts") >>
      [] url = UrlAdts -> << Line("code", "a.d.ts") >>

\* The static module graph of an entry point: what `deno vendor` downloads.
ModuleGraph(url) ==
    CASE url = UrlA -> {UrlA, UrlB}
      [] url = UrlB -> {UrlA, UrlB}

VendorPath(url) ==
    CASE url = UrlA -> PathA
      [] url = UrlB -> PathB

\* ts.ScriptKind of a parsed file, by extension; "none" when the program
\* yields no source file for the path (parseFileAst returns null).
ScriptKind(path) ==
    CASE path \in {PathA, PathB, PathBdts, PathAdts} -> "TS"
      [] OTHER -> "none"

\* The import map `deno vendor` writes for an entry point: every module of
\* the graph that the temporary import map does not redirect to the dummy
\* module is mapped to its file in the vendor tree.
VendoredGraph(entry, excludeUrls) == ModuleGraph(entry) \ excludeUrls

VendorImportMap(entry, excludeUrls) ==
    [u \in VendoredGraph(entry, excludeUrls) |-> toFileUrl[VendorPath(u)]]

\* ------------------------------------------------------------ the rewriter

Null == "null"

\* A test that takes every file: URL, wherever the file lies.
InTree_AnyFile(importMap, basePath, moduleSpecifier) ==
    Protocol(resolveModuleSpecifier(importMap, basePath, moduleSpecifier)) = "file:"

\* resolveModuleSpecifierAll (src/mod.js 634-645): the resolution of the
\* first parsed import map that lands on a file inside the output directory.
InTree(importMap, basePath, moduleSpecifier) ==
    LET resolved == resolveModuleSpecifier(importMap, basePath, moduleSpecifier)
    IN /\ Protocol(resolved) = "file:"
       /\ InOutputDir(fromFileUrl(resolved))

resolveModuleSpecifierAll(maps, basePath, moduleSpecifier) ==
    LET hits == {i \in 1..Len(maps) : InTree(maps[i], basePath, moduleSpecifier)}
    IN IF hits = {} THEN Null
       ELSE LET first == CHOOSE i \in hits : \A j \in hits : i <= j
            IN resolveModuleSpecifier(maps[first], basePath, moduleSpecifier)

\* newSpecifier.slice(0, -3) + ".js" when the path ends in ".ts".
RenameTsToJs(path) ==
    CASE path = PathA -> "/proj/.denoTypes/vendor/x/a.js"
      [] path = PathB -> "/proj/.denoTypes/vendor/x/b.js"
      [] OTHER -> path

\* transformer (src/mod.js 653-695) on one line: an import/export specifier
\* that resolves into the vendor tree becomes that absolute path, .ts -> .js.
TransformLine(line, maps, filePath) ==
    IF line.kind # "import" THEN line
    ELSE LET resolvedUrl == resolveModuleSpecifierAll(maps, filePath, line.text)
         IN IF resolvedUrl = Null THEN line
            ELSE Line("import", RenameTsToJs(fromFileUrl(resolvedUrl)))

\* A check that looks for the modified comment on the first non-shebang
\* line only.
IncludesModifiedComment_FirstLine(content) ==
    LET first == IF Len(content) > 0 /\ content[1].kind = "shebang" THEN 2 ELSE 1
    IN Len(content) >= first /\ content[first].kind = "modifiedComment"

\* fileContent.includes(modifiedComment)
IncludesModifiedComment(content) ==
    \E i \in 1..Len(content) : content[i].kind = "modifiedComment"

\* lines.splice(at, 0, x)
Splice(lines, at, x) ==
    SubSeq(lines, 1, at) \o << x >> \o SubSeq(lines, at + 1, Len(lines))

IsReference(line) == line.kind = "reference"
NotReference(line) == ~IsReference(line)

tsNocheckScriptKinds == {"JS", "JSX", "TS", "TSX"}

\* Comments always inserted at the very top.
ScriptStart_Zero(lines) == 0

\* The place where comments can be inserted without breaking the shebang.
ScriptStart(lines) ==
    IF Len(lines) > 0 /\ lines[1].kind = "shebang" THEN 1 ELSE 0

\* The text written back for a parsed file (src/mod.js 754-792).
\* A rewriter that writes the file back as it found it.
ModifiedContent_Untouched(content, filePath, maps) == content

ModifiedContent(content, filePath, maps) ==
    LET printed == [i \in 1..Len(content) |-> TransformLine(content[i], maps, filePath)]
        scriptStart == ScriptStart(printed)
        tagged == Splice(printed, scriptStart, modifiedComment)
    IN IF ScriptKind(filePath) \in tsNocheckScriptKinds
       THEN SelectSeq(Splice(tagged, scriptStart, tsNocheck), NotReference)
       ELSE tagged

\* The @deno-types references the parse callback collects from a file
\* (src/mod.js 730-751): an import whose last leading comment is the
\* directive.
CollectedDtsOf(content, filePath) ==
    LET idx == {i \in 2..Len(content) :
                   content[i].kind = "import" /\ content[i - 1].kind = "denoTypes"}
        Ordered[n \in 0..Len(content)] ==
            IF n = 0 THEN << >>
            ELSE IF n \in idx
                 THEN Append(Ordered[n - 1],
                             [denoTypesUrl |-> content[n - 1].text,
                              vendorFilePath |-> filePath,
                              moduleSpecifier |-> content[n].text])
                 ELSE Ordered[n - 1]
    IN Ordered[Len(content)]

\* Whether one iteration of the rewriter loop skips the file (sentinel
\* found, or no ast).
SkipsFile(content, filePath) ==
    IncludesModifiedComment(content) \/ ScriptKind(filePath) = "none"

\* The destination of a fetched declaration file: the module's path with
\* the extension replaced by .d.ts (src/mod.js 817-823).
DtsDestinationPath(path) ==
    CASE path = PathB -> PathBdts
      [] path = PathA -> PathAdts

\* ------------------------------------------------------------------ options

TypeRootFolder == "foo"
TypeRootUrl == "https://t/foo.d.ts"
ExactSpecifier == "npm:e@1"
ExactUrl == "https://t/e.d.ts"
PathDenoTypes == "/proj/.denoTypes/@types/deno-types/index.d.ts"
PathTypeRoot == "/proj/.denoTypes/@types/foo/index.d.ts"
PathExactTypes == "/proj/.denoTypes/exactTypes/npm_e_1/index.d.ts"

\* The Deno releases the project is run with.
DenoVersions == {"1.28.0", "1.29.0"}

Options(excludeUrls, extraTypeRoots, exactTypeModules) ==
    [excludeUrls |-> excludeUrls,
     extraTypeRoots |-> extraTypeRoots,
     exactTypeModules |-> exactTypeModules]


\* The extraTypeRoots and exactTypeModules options the project's script
\* passes on every run.
ProjectTypeRoots == [x \in {TypeRootFolder} |-> TypeRootUrl]
ProjectExactTypeModules == [x \in {ExactSpecifier} |-> ExactUrl]

\* Object.entries order of the option objects of this universe.
RECURSIVE Keys(_)
Keys(obj) ==
    IF DOMAIN obj = {} THEN << >>
    ELSE LET k == CHOOSE k \in DOMAIN obj : TRUE
         IN << k >> \o Keys([x \in (DOMAIN obj) \ {k} |-> obj[x]])

TypeRootFilePath(folderName) == PathTypeRoot
ExactTypesFilePath(specifier) == PathExactTypes

\* -------------------------------------------------------------------- state

VARIABLES
    \* files
    cacheFile,          \* cacheFile.json: [exists, data]
    typeFiles,          \* @types/*, exactTypes/*, npmTypes/*: path -> source
    vendorTree,         \* vendor/**: path -> content
    tsconfigFile,       \* tsconfig.json: [exists, paths]
    ambientFile,        \* the ambient module declarations: [exists, lines]
    tmpImportMapFile,   \* tmp_tsc_helper_import_map.json: [exists, imports]
    \* the project generateTypes is run in, and its history
    options,
    userImports,
    runs,               \* runs started so far
    edits,              \* changes of the project so far
    edited,             \* the project changed since the last run started
    optionsKeys,        \* the keys of the options object, in the order written
    denoVersion,        \* Deno.version.deno of the installed Deno
    hashFile,           \* the cacheHashFile: [exists, content]
    preCollectedFile,   \* the preCollectedImportsFile: [exists, text]
    userTree,           \* the files below the project directory
    userFiles,          \* the files getIncludeExcludeFiles returned
    resolveCall,        \* the last call of resolveModuleSpecifierAll: [baseUrl, moduleSpecifier, resolved]
    \* the run
    pc,
    cache,              \* the parsed cache file (EmptyObj when there is none)
    cacheExists,
    newCacheData,
    todo,               \* what is left of the for-loop being run
    newFetched,         \* newFetchedTypeRoots / newFetchedExactTypeModules
    remoteImports,
    needsAmbientModuleImportSpecifiers,
    parsedImportMaps,
    npmImports,
    filePaths,          \* vendor files the rewriter has not visited yet, in order
    collectedDtsFiles,
    dtsFetchPromises,   \* indices of collectedDtsFiles not settled yet
    \* observation
    outcome,            \* how the last run ended; "running" during a run
    log,                \* what this run did
    atStart             \* the files and the previous run, when this run began

\* Deno.version.deno + (unstable ? "-unstable" : "")
desiredDenoTypesVersion == denoVersion

files == << cacheFile, typeFiles, vendorTree, tsconfigFile, ambientFile, tmpImportMapFile >>
userProject == << userTree, userFiles, resolveCall >>
surroundings == << optionsKeys, denoVersion, hashFile, preCollectedFile, userProject >>
project == << options, userImports, runs, edits, edited, surroundings >>
locals == << cache, cacheExists, newCacheData, todo, newFetched, remoteImports,
             needsAmbientModuleImportSpecifiers, parsedImportMaps, npmImports,
             filePaths, collectedDtsFiles, dtsFetchPromises >>
vars == << files, project, pc, locals, outcome, log, atStart >>

NoFile == [exists |-> FALSE]

\* No call of resolveModuleSpecifierAll is on record.
NoCall == [baseUrl |-> "", moduleSpecifier |-> "", resolved |-> ""]

\* ---------------------------------------------------------------- JSON text

\* The text of a file, as far as JSON.parse and a truthiness test tell:
\* whether it is the empty string, whether it parses, and the value it
\* parses to.
NoText == [empty |-> TRUE, parses |-> FALSE, value |-> EmptyObj]
TruncatedText == [empty |-> FALSE, parses |-> FALSE, value |-> EmptyObj]

\* What a write of the pre-collected imports file that is cut short leaves.
InterruptedWriteTexts == {NoText, TruncatedText}

\* URL.prototype.toJSON: a URL object is written as the JSON string of its
\* href.
UrlText(url) ==
    CASE url = UrlA -> "\"https://x/a.ts\""
      [] url = UrlN -> "\"npm:p@1.0.0\""

\* The resolvedSpecifier of a parsed record is left as the string it is.
NewUrl_NotRestored(text) == text

\* new URL(string): the URL object of the href the string holds.
NewUrl(text) ==
    CASE text = "\"https://x/a.ts\"" -> UrlA
      [] text = "\"npm:p@1.0.0\"" -> UrlN

\* JSON.stringify(collectedImportData, null, "\t")
StringifyImportData(data) ==
    [empty |-> FALSE,
     parses |-> TRUE,
     value |->
        [remoteImports |->
            [i \in 1..Len(data.remoteImports) |->
                [importerFilePath |-> data.remoteImports[i].importerFilePath,
                 importSpecifier |-> data.remoteImports[i].importSpecifier,
                 resolvedSpecifier |-> UrlText(data.remoteImports[i].resolvedSpecifier)]],
         needsAmbientModuleImportSpecifiers |-> data.needsAmbientModuleImportSpecifiers]]

\* src/mod.js 400-409: JSON.parse, then every resolvedSpecifier is made a
\* URL again.
ParsePreCollectedImports(text) ==
    [remoteImports |->
        [i \in 1..Len(text.value.remoteImports) |->
            [text.value.remoteImports[i] EXCEPT !.resolvedSpecifier = NewUrl(@)]],
     needsAmbientModuleImportSpecifiers |-> text.value.needsAmbientModuleImportSpecifiers]

\* JSON.stringify(options): the properties in the order of the keys.
StringifyOptions(keys, opts) == [i \in 1..Len(keys) |-> << keys[i], opts[keys[i]] >>]

\* Array.prototype.sort() on the specifiers of this universe (UTF-16 order).
SortOrder == << AliasA, UrlA, UrlB, UrlN >>
Sorted(specifiers) == LET Present(x) == x \in specifiers IN SelectSeq(SortOrder, Present)

EmptyLog ==
    [vendorOps |-> << >>,       \* vendor / registry operations started
     visited |-> {},            \* files the rewriter looked at
     rewritten |-> {},          \* files the rewriter wrote
     dtsFetched |-> << >>,      \* declaration urls fetched
     dtsFailed |-> {},          \* declaration-fetch tasks that rejected
     declaresTypes |-> << >>,   \* by specifier: the registry declared a types entry
     wroteTsconfig |-> FALSE,
     wroteAmbient |-> FALSE,
     importsFrom |-> "none",    \* where the run took its imports from
     passedReset |-> FALSE]     \* went past the "reset vendoredImports" step

\* Nothing is remembered of the start of a run when no run is under way.
NotRunning == [files |-> << >>, outcome |-> "none", sameInputs |-> FALSE,
               passedReset |-> FALSE]

Init ==
    /\ cacheFile = [exists |-> FALSE, data |-> EmptyObj]
    /\ typeFiles = EmptyObj
    /\ vendorTree = EmptyObj
    /\ tsconfigFile = [exists |-> FALSE, paths |-> EmptyObj]
    /\ ambientFile = [exists |-> FALSE, lines |-> << >>]
    /\ tmpImportMapFile = [exists |-> FALSE, imports |-> EmptyObj]
    /\ \E excludeUrls \in ExcludeUrlsChoices : options = Options(excludeUrls, ProjectTypeRoots, ProjectExactTypeModules)
    /\ userImports \in UserImportsChoices
    /\ runs = 0
    /\ edits = 0
    /\ edited = FALSE
    /\ optionsKeys = << "excludeUrls", "extraTypeRoots", "exactTypeModules" >>
    /\ denoVersion = "1.28.0"
    /\ hashFile = [exists |-> FALSE, content |-> EmptyObj]
    /\ preCollectedFile = [exists |-> FALSE, text |-> NoText]
    /\ userTree = {}
    /\ userFiles = << >>
    /\ resolveCall = NoCall
    /\ pc = "idle"
    /\ cache = EmptyObj
    /\ cacheExists = FALSE
    /\ newCacheData = EmptyObj
    /\ todo = << >>
    /\ newFetched = EmptyObj
    /\ remoteImports = << >>
    /\ needsAmbientModuleImportSpecifiers = << >>
    /\ parsedImportMaps = << >>
    /\ npmImports = EmptyObj
    /\ filePaths = << >>
    /\ collectedDtsFiles = << >>
    /\ dtsFetchPromises = {}
    /\ outcome = "none"
    /\ log = EmptyLog
    /\ atStart = NotRunning

\* ---------------------------------------------------------------- the cache

\* cache?.vendoredImports read into a Set (src/mod.js 236-241).
cachedImportSpecifiers ==
    IF "vendoredImports" \in DOMAIN cache THEN cache.vendoredImports ELSE {}

denoTypesVersion ==
    IF "denoTypesVersion" \in DOMAIN cache THEN cache.denoTypesVersion ELSE ""

cachedTypeRoots ==
    IF "fetchedTypeRoots" \in DOMAIN cache THEN cache.fetchedTypeRoots ELSE EmptyObj

cachedExactTypeModules ==
    IF "fetchedExactTypeModules" \in DOMAIN cache THEN cache.fetchedExactTypeModules ELSE EmptyObj

Get(obj, key, default) == IF key \in DOMAIN obj THEN obj[key] ELSE default

\* A cache update that writes only the properties it is given.
updateCacheData_NoMerge(setProps) ==
    /\ newCacheData' = setProps
    /\ cacheFile' = [exists |-> TRUE, data |-> setProps]

\* updateCacheData (src/mod.js 255-262): merge, then write the whole file.
updateCacheData(setProps) ==
    /\ newCacheData' = Merge(newCacheData, setProps)
    /\ cacheFile' = [exists |-> TRUE, data |-> Merge(newCacheData, setProps)]

\* ------------------------------------------------- generateTypes, step by step

\* The memory of a run is gone when the run has stopped.
LocalsForgotten ==
    /\ cache' = EmptyObj
    /\ cacheExists' = FALSE
    /\ newCacheData' = EmptyObj
    /\ todo' = << >>
    /\ newFetched' = EmptyObj
    /\ remoteImports' = << >>
    /\ needsAmbientModuleImportSpecifiers' = << >>
    /\ parsedImportMaps' = << >>
    /\ npmImports' = EmptyObj
    /\ filePaths' = << >>
    /\ collectedDtsFiles' = << >>
    /\ dtsFetchPromises' = {}

\* Between two runs the user changes the imports of the included files or
\* the excludeUrls option passed to generateTypes.
EditProject(excludeUrls, imports) ==
    /\ pc = "idle"
    /\ runs > 0
    /\ edits < MaxEdits
    /\ << excludeUrls, imports >> # << options.excludeUrls, userImports >>
    /\ options' = [options EXCEPT !.excludeUrls = excludeUrls]
    /\ userImports' = imports
    /\ edits' = edits + 1
    /\ edited' = TRUE
    /\ UNCHANGED << files, runs, surroundings, pc, locals, outcome, log, atStart >>

\* src/mod.js 186-283: the cache file is read if it exists.
StartRun ==
    /\ pc = "idle"
    /\ runs < MaxRuns
    /\ runs' = runs + 1
    /\ edited' = FALSE
    /\ cacheExists' = cacheFile.exists
    /\ cache' = IF cacheFile.exists THEN cacheFile.data ELSE EmptyObj
    /\ newCacheData' = IF cacheFile.exists THEN cacheFile.data ELSE EmptyObj
    /\ todo' = << >>
    /\ newFetched' = EmptyObj
    /\ remoteImports' = << >>
    /\ needsAmbientModuleImportSpecifiers' = << >>
    /\ parsedImportMaps' = << >>
    /\ npmImports' = EmptyObj
    /\ filePaths' = << >>
    /\ collectedDtsFiles' = << >>
    /\ dtsFetchPromises' = {}
    /\ outcome' = "running"
    /\ log' = EmptyLog
    /\ atStart' = [files |-> files, outcome |-> outcome, sameInputs |-> ~edited,
                   passedReset |-> log.passedReset]
    /\ pc' = "denoTypes"
    /\ UNCHANGED << files, options, userImports, edits, surroundings >>

\* src/mod.js 285-308: regenerate the Deno types when the version differs.
GenerateDenoTypes ==
    /\ pc = "denoTypes"
    /\ IF denoTypesVersion # desiredDenoTypesVersion
       THEN /\ typeFiles' = Merge(typeFiles, [x \in {PathDenoTypes} |-> desiredDenoTypesVersion])
            /\ pc' = "denoTypesCache"
       ELSE /\ pc' = "resetTypeRoots"
            /\ UNCHANGED typeFiles
    /\ UNCHANGED << cacheFile, vendorTree, tsconfigFile, ambientFile, tmpImportMapFile,
                    project, locals, outcome, log, atStart >>

\* src/mod.js 310-312
SaveDenoTypesVersion ==
    /\ pc = "denoTypesCache"
    /\ updateCacheData([x \in {"denoTypesVersion"} |-> desiredDenoTypesVersion])
    /\ pc' = "resetTypeRoots"
    /\ UNCHANGED << typeFiles, vendorTree, tsconfigFile, ambientFile, tmpImportMapFile,
                    project, cache, cacheExists, todo, newFetched, remoteImports,
                    needsAmbientModuleImportSpecifiers, parsedImportMaps, npmImports,
                    filePaths, collectedDtsFiles, dtsFetchPromises, outcome, log, atStart >>

\* src/mod.js 319-323
ResetTypeRoots ==
    /\ pc = "resetTypeRoots"
    /\ updateCacheData([x \in {"fetchedTypeRoots"} |-> EmptyObj])
    /\ todo' = Keys(options.extraTypeRoots)
    /\ newFetched' = EmptyObj
    /\ pc' = "fetchTypeRoots"
    /\ UNCHANGED << typeFiles, vendorTree, tsconfigFile, ambientFile, tmpImportMapFile,
                    project, cache, cacheExists, remoteImports,
                    needsAmbientModuleImportSpecifiers, parsedImportMaps, npmImports,
                    filePaths, collectedDtsFiles, dtsFetchPromises, outcome, log, atStart >>

\* src/mod.js 324-339: one iteration of the loop over extraTypeRoots.
FetchTypeRoot ==
    /\ pc = "fetchTypeRoots"
    /\ todo # << >>
    /\ LET folderName == Head(todo)
           url == options.extraTypeRoots[folderName]
       IN /\ typeFiles' = IF Get(cachedTypeRoots, folderName, "") # url
                          THEN Merge(typeFiles, [x \in {TypeRootFilePath(folderName)} |-> url])
                          ELSE typeFiles
          /\ newFetched' = Merge(newFetched, [x \in {folderName} |-> url])
    /\ todo' = Tail(todo)
    /\ UNCHANGED << cacheFile, vendorTree, tsconfigFile, ambientFile, tmpImportMapFile,
                    project, pc, cache, cacheExists, newCacheData, remoteImports,
                    needsAmbientModuleImportSpecifiers, parsedImportMaps, npmImports,
                    filePaths, collectedDtsFiles, dtsFetchPromises, outcome, log, atStart >>

\* src/mod.js 340-342
SaveTypeRoots ==
    /\ pc = "fetchTypeRoots"
    /\ todo = << >>
    /\ updateCacheData([x \in {"fetchedTypeRoots"} |-> newFetched])
    /\ pc' = "resetExactTypeModules"
    /\ UNCHANGED << typeFiles, vendorTree, tsconfigFile, ambientFile, tmpImportMapFile,
                    project, cache, cacheExists, todo, newFetched, remoteImports,
                    needsAmbientModuleImportSpecifiers, parsedImportMaps, npmImports,
                    filePaths, collectedDtsFiles, dtsFetchPromises, outcome, log, atStart >>

\* src/mod.js 347-358
ResetExactTypeModules ==
    /\ pc = "resetExactTypeModules"
    /\ updateCacheData([x \in {"fetchedExactTypeModules"} |-> EmptyObj])
    /\ todo' = Keys(options.exactTypeModules)
    /\ newFetched' = EmptyObj
    /\ pc' = "fetchExactTypeModules"
    /\ UNCHANGED << typeFiles, vendorTree, tsconfigFile, ambientFile, tmpImportMapFile,
                    project, cache, cacheExists, remoteImports,
                    needsAmbientModuleImportSpecifiers, parsedImportMaps, npmImports,
                    filePaths, collectedDtsFiles, dtsFetchPromises, outcome, log, atStart >>

\* src/mod.js 359-380: one iteration of the loop over exactTypeModules.
FetchExactTypeModule ==
    /\ pc = "fetchExactTypeModules"
    /\ todo # << >>
    /\ LET specifier == Head(todo)
           url == options.exactTypeModules[specifier]
       IN /\ typeFiles' = IF Get(cachedExactTypeModules, specifier, "") # url
                          THEN Merge(typeFiles, [x \in {ExactTypesFilePath(specifier)} |-> url])
                          ELSE typeFiles
          /\ newFetched' = Merge(newFetched, [x \in {specifier} |-> url])
    /\ todo' = Tail(todo)
    /\ UNCHANGED << cacheFile, vendorTree, tsconfigFile, ambientFile, tmpImportMapFile,
                    project, pc, cache, cacheExists, newCacheData, remoteImports,
                    needsAmbientModuleImportSpecifiers, parsedImportMaps, npmImports,
                    filePaths, collectedDtsFiles, dtsFetchPromises, outcome, log, atStart >>

\* src/mod.js 381
SaveExactTypeModules ==
    /\ pc = "fetchExactTypeModules"
    /\ todo = << >>
    /\ updateCacheData([x \in {"fetchedExactTypeModules"} |-> newFetched])
    /\ pc' = "collect"
    /\ UNCHANGED << typeFiles, vendorTree, tsconfigFile, ambientFile, tmpImportMapFile,
                    project, cache, cacheExists, todo, newFetched, remoteImports,
                    needsAmbientModuleImportSpecifiers, parsedImportMaps, npmImports,
                    filePaths, collectedDtsFiles, dtsFetchPromises, outcome, log, atStart >>

\* fetchedExactTypeModulesPathMappings (src/mod.js 357-366), complete once
\* the loop over exactTypeModules has run.
fetchedExactTypeModulesPathMappings ==
    [s \in DOMAIN options.exactTypeModules |-> ExactTypesFilePath(s)]

\* A check that never finds the imports cached.
AllCached_Never(imports, cached) == FALSE

\* src/mod.js 429-435: every collected resolved specifier is in the cache.
AllCached(imports, cached) ==
    \A i \in 1..Len(imports) : imports[i].resolvedSpecifier \in cached

\* src/mod.js 387-396: the text of the pre-collected imports file, when the
\* option names one and the file is there.
HasPreCollectedImportsStr ==
    /\ "preCollectedImportsFile" \in DOMAIN options
    /\ preCollectedFile.exists
    /\ ~preCollectedFile.text.empty

\* src/mod.js 383-446: take the imports from the pre-collected file or
\* collect them; return early when all of them were vendored by the run
\* that wrote the cache. A file that does not parse is an error.
CollectImports ==
    /\ pc = "collect"
    /\ IF HasPreCollectedImportsStr /\ ~preCollectedFile.text.parses
       THEN /\ pc' = "returned"
            /\ outcome' = "stopped"
            /\ log' = [log EXCEPT !.importsFrom = "corrupt"]
            /\ LocalsForgotten
       ELSE /\ LET collected ==
                    IF HasPreCollectedImportsStr
                    THEN ParsePreCollectedImports(preCollectedFile.text)
                    ELSE collectImports(userImports, options.excludeUrls, UserImportMap)
               IN /\ remoteImports' = collected.remoteImports
                  /\ needsAmbientModuleImportSpecifiers' = collected.needsAmbientModuleImportSpecifiers
                  /\ IF AllCached(collected.remoteImports, cachedImportSpecifiers)
                     THEN pc' = "returned" /\ outcome' = "earlyExit"
                     ELSE pc' = "resetVendoredImports" /\ outcome' = outcome
            /\ log' = [log EXCEPT !.importsFrom =
                           IF HasPreCollectedImportsStr THEN "preCollectedImportsFile"
                           ELSE "collectImports"]
            /\ UNCHANGED << cache, cacheExists, newCacheData, todo, newFetched,
                            parsedImportMaps, npmImports, filePaths, collectedDtsFiles,
                            dtsFetchPromises >>
    /\ UNCHANGED << files, project, atStart >>

\* A reset step that leaves the persisted vendoredImports as they are.
ResetVendoredProps_Kept == EmptyObj

\* What the reset step sets in the cache file.
ResetVendoredProps == [x \in {"vendoredImports"} |-> {}]

\* src/mod.js 452-456
ResetVendoredImports ==
    /\ pc = "resetVendoredImports"
    /\ IF cacheExists
       THEN updateCacheData(ResetVendoredProps)
       ELSE UNCHANGED << newCacheData, cacheFile >>
    /\ log' = [log EXCEPT !.passedReset = TRUE]
    /\ pc' = "writeTemporaryImportMap"
    /\ UNCHANGED << typeFiles, vendorTree, tsconfigFile, ambientFile, tmpImportMapFile,
                    project, cache, cacheExists, todo, newFetched, remoteImports,
                    needsAmbientModuleImportSpecifiers, parsedImportMaps, npmImports,
                    filePaths, collectedDtsFiles, dtsFetchPromises, outcome, atStart >>

\* One entry per import record, whatever it resolves to.
mergedRemoteImports_NoDedup(imports) ==
    [i \in 1..Len(imports) |-> imports[i].resolvedSpecifier]

\* mergedRemoteImports (src/mod.js 478-487): the resolved specifiers in
\* order of first occurrence, each with the imports that resolve to it.
mergedRemoteImports(imports) ==
    Dedup([i \in 1..Len(imports) |-> imports[i].resolvedSpecifier])

importDatasOf(imports, resolvedSpecifier) ==
    LET Same(imp) == imp.resolvedSpecifier = resolvedSpecifier
    IN SelectSeq(imports, Same)

dummyUrl == "file:///proj/.denoTypes/dummyModule.js"

\* An overlay in which a rule of the user's import map wins over the rule
\* for an excluded url of the same key.
temporaryImportMap_UserRuleWins(excludeUrls) ==
    Merge([u \in excludeUrls \cup {"npm:typescript@4.7.4"} |-> dummyUrl], UserImportMap)

\* src/mod.js 491-517: the user's import map with every excluded url and
\* the typescript specifier pointing at the dummy module.
temporaryImportMap(excludeUrls) ==
    Merge(UserImportMap, [u \in excludeUrls \cup {"npm:typescript@4.7.4"} |-> dummyUrl])

\* src/mod.js 478-518
WriteTemporaryImportMap ==
    /\ pc = "writeTemporaryImportMap"
    /\ todo' = mergedRemoteImports(remoteImports)
    /\ tmpImportMapFile' = [exists |-> TRUE, imports |-> temporaryImportMap(options.excludeUrls)]
    /\ pc' = "vendor"
    /\ UNCHANGED << cacheFile, typeFiles, vendorTree, tsconfigFile, ambientFile,
                    project, cache, cacheExists, newCacheData, newFetched, remoteImports,
                    needsAmbientModuleImportSpecifiers, parsedImportMaps, npmImports,
                    filePaths, collectedDtsFiles, dtsFetchPromises, outcome, log, atStart >>

\* readDirRecursive(vendorOutputPath): the files of the vendor tree, in
\* directory order.
VendorDirOrder == << PathImportMap, PathAdts, PathA, PathBdts, PathB >>

\* A listing that ends before the last file of the tree.
readDirRecursive_EndsEarly(tree) ==
    LET Listed(p) == p \in DOMAIN tree /\ p # PathB
    IN SelectSeq(VendorDirOrder, Listed)

readDirRecursive(tree) ==
    LET Exists(path) == path \in DOMAIN tree IN SelectSeq(VendorDirOrder, Exists)

Op(kind, entry) == [kind |-> kind, entry |-> entry]

\* src/mod.js 524: vendored by the last run, nothing to do.
SkipCached ==
    /\ pc = "vendor"
    /\ todo # << >>
    /\ Head(todo) \in cachedImportSpecifiers
    /\ todo' = Tail(todo)
    /\ UNCHANGED << files, project, pc, cache, cacheExists, newCacheData, newFetched,
                    remoteImports, needsAmbientModuleImportSpecifiers, parsedImportMaps,
                    npmImports, filePaths, collectedDtsFiles, dtsFetchPromises,
                    outcome, log, atStart >>

\* ------------------------------------------------------- registry packages

Undefined == "undefined"
NotAString == "[object Object]"

\* What the registry may answer for the package: its "types" and "typings"
\* entries.
RegistryDataChoices ==
    { [types |-> "index.d.ts", typings |-> Undefined],
      [types |-> Undefined, typings |-> "./index.d.ts"],
      [types |-> NotAString, typings |-> Undefined],
      [types |-> Undefined, typings |-> Undefined] }

\* The files of the published package, as getPackageContents() yields them.
PackageContents == << "package.json", "index.js", "index.d.ts" >>

\* Only the "types" entry is looked at.
typesPathOf_TypesOnly(registryData) == registryData.types

\* registryData.types || registryData.typings
typesPathOf(registryData) ==
    IF registryData.types # Undefined THEN registryData.types ELSE registryData.typings

IsString(value) == value \notin {Undefined, NotAString}

\* The registry metadata declares a string "types" or "typings" entry.
DeclaresTypes(registryData) == IsString(registryData.types) \/ IsString(registryData.typings)

\* resolve("/", path)
ResolveFromRoot(path) ==
    CASE path \in {"index.d.ts", "./index.d.ts"} -> "/index.d.ts"
      [] path = "index.js" -> "/index.js"
      [] path = "package.json" -> "/package.json"

\* resolve(outputDir, "npmTypes", packageName, version, entry.fileName)
NpmDestinationPath(fileName) ==
    CASE fileName = "index.d.ts" -> PathNpmTypes
      [] fileName = "index.js" -> "/proj/.denoTypes/npmTypes/p/1.0.0/index.js"
      [] fileName = "package.json" -> "/proj/.denoTypes/npmTypes/p/1.0.0/package.json"

\* The entries of the package that are the declared types file.
TypesEntries(typesPath) ==
    LET IsTypes(fileName) == ResolveFromRoot(fileName) = ResolveFromRoot(typesPath)
    IN SelectSeq(PackageContents, IsTypes)

\* src/mod.js 526-555: fetch the package from the registry and copy the
\* file its "types" entry names; every import of the specifier maps to it.
\* A package without a string "types" / "typings" entry is passed over.
FetchNpmTypes(registryData) ==
    /\ pc = "vendor"
    /\ todo # << >>
    /\ Head(todo) \notin cachedImportSpecifiers
    /\ Protocol(Head(todo)) = "npm:"
    /\ LET typesPath == typesPathOf(registryData)
           importDatas == importDatasOf(remoteImports, Head(todo))
           copied == IF IsString(typesPath) THEN TypesEntries(typesPath) ELSE << >>
           destinations == {NpmDestinationPath(copied[i]) : i \in 1..Len(copied)}
       IN /\ npmImports' =
                 IF copied = << >> THEN npmImports
                 ELSE Merge(npmImports,
                            [s \in {importDatas[i].importSpecifier : i \in 1..Len(importDatas)} |->
                                NpmDestinationPath(copied[Len(copied)])])
          /\ typeFiles' = Merge(typeFiles, [x \in destinations |-> Head(todo)])
    /\ log' = [log EXCEPT !.vendorOps = Append(@, Op("registry", Head(todo))),
                          !.declaresTypes =
                              Merge(@, [x \in {Head(todo)} |-> DeclaresTypes(registryData)])]
    /\ todo' = Tail(todo)
    /\ UNCHANGED << cacheFile, vendorTree, tsconfigFile, ambientFile, tmpImportMapFile,
                    project, pc, cache, cacheExists, newCacheData, newFetched, remoteImports,
                    needsAmbientModuleImportSpecifiers, parsedImportMaps,
                    filePaths, collectedDtsFiles, dtsFetchPromises, outcome, atStart >>

\* The files one `deno vendor --force` run leaves in the vendor tree.
VendorWrites(entry, excludeUrls) ==
    LET graph == VendoredGraph(entry, excludeUrls)
    IN [p \in {VendorPath(u) : u \in graph} \cup {PathImportMap} |->
          IF p = PathImportMap THEN << Line("json", entry) >>
          ELSE RemoteSource(CHOOSE u \in graph : VendorPath(u) = p)]

\* src/mod.js 557-621: `deno vendor` succeeds; its import map is parsed
\* and kept.
Vendor ==
    /\ pc = "vendor"
    /\ todo # << >>
    /\ Head(todo) \notin cachedImportSpecifiers
    /\ Protocol(Head(todo)) # "npm:"
    /\ vendorTree' = Merge(vendorTree, VendorWrites(Head(todo), options.excludeUrls))
    /\ parsedImportMaps' = Append(parsedImportMaps, VendorImportMap(Head(todo), options.excludeUrls))
    /\ log' = [log EXCEPT !.vendorOps = Append(@, Op("vendor", Head(todo)))]
    /\ todo' = Tail(todo)
    /\ UNCHANGED << cacheFile, typeFiles, tsconfigFile, ambientFile, tmpImportMapFile,
                    project, pc, cache, cacheExists, newCacheData, newFetched, remoteImports,
                    needsAmbientModuleImportSpecifiers, npmImports,
                    filePaths, collectedDtsFiles, dtsFetchPromises, outcome, atStart >>

\* src/mod.js 528, 569-607: the registry fetch or `deno vendor` fails and
\* generateTypes throws.
VendorFails ==
    /\ pc = "vendor"
    /\ todo # << >>
    /\ Head(todo) \notin cachedImportSpecifiers
    /\ log' = [log EXCEPT !.vendorOps =
                   Append(@, Op(IF Protocol(Head(todo)) = "npm:" THEN "registry" ELSE "vendor",
                                Head(todo)))]
    /\ pc' = "returned"
    /\ outcome' = "stopped"
    /\ LocalsForgotten
    /\ UNCHANGED << files, project, atStart >>

\* src/mod.js 624, 717: the loop is over; the temporary import map is
\* removed and the rewriter lists the vendor tree.
RemoveTemporaryImportMap ==
    /\ pc = "vendor"
    /\ todo = << >>
    /\ tmpImportMapFile' = [exists |-> FALSE, imports |-> EmptyObj]
    /\ filePaths' = readDirRecursive(vendorTree)
    /\ pc' = "modify"
    /\ UNCHANGED << cacheFile, typeFiles, vendorTree, tsconfigFile, ambientFile,
                    project, cache, cacheExists, newCacheData, todo, newFetched, remoteImports,
                    needsAmbientModuleImportSpecifiers, parsedImportMaps, npmImports,
                    collectedDtsFiles, dtsFetchPromises, outcome, log, atStart >>

\* src/mod.js 717-726: a file that carries the modified comment, or that
\* yields no ast (752), is left alone.
SkipVendoredFile(filePath) ==
    /\ pc = "modify"
    /\ filePaths # << >>
    /\ filePath = Head(filePaths)
    /\ SkipsFile(vendorTree[filePath], filePath)
    /\ filePaths' = Tail(filePaths)
    /\ log' = [log EXCEPT !.visited = @ \cup {filePath}]
    /\ UNCHANGED << files, project, pc, cache, cacheExists, newCacheData, todo, newFetched,
                    remoteImports, needsAmbientModuleImportSpecifiers, parsedImportMaps,
                    npmImports, collectedDtsFiles, dtsFetchPromises, outcome, atStart >>

\* src/mod.js 728-792: parse, collect the @deno-types references,
\* transform, tag and write the file back.
ModifyVendoredFile(filePath) ==
    /\ pc = "modify"
    /\ filePaths # << >>
    /\ filePath = Head(filePaths)
    /\ ~SkipsFile(vendorTree[filePath], filePath)
    /\ collectedDtsFiles' = collectedDtsFiles \o CollectedDtsOf(vendorTree[filePath], filePath)
    /\ vendorTree' = [vendorTree EXCEPT
                         ![filePath] = ModifiedContent(@, filePath, parsedImportMaps)]
    /\ filePaths' = Tail(filePaths)
    /\ log' = [log EXCEPT !.visited = @ \cup {filePath}, !.rewritten = @ \cup {filePath}]
    /\ UNCHANGED << cacheFile, typeFiles, tsconfigFile, ambientFile, tmpImportMapFile,
                    project, pc, cache, cacheExists, newCacheData, todo, newFetched,
                    remoteImports, needsAmbientModuleImportSpecifiers, parsedImportMaps,
                    npmImports, dtsFetchPromises, outcome, atStart >>

\* const emptyImportMap = createEmptyImportMap()
emptyImportMap == EmptyObj

\* src/mod.js 803-808: a directive that already points at a local file
\* needs no fetch.
NeedsDtsFetch(dts) ==
    Protocol(resolveModuleSpecifier(emptyImportMap, dts.vendorFilePath, dts.denoTypesUrl)) # "file:"

\* src/mod.js 795-827: every collected reference gets its task; the tasks
\* that need the network start their fetch.
StartDtsFetches ==
    /\ pc = "modify"
    /\ filePaths = << >>
    /\ dtsFetchPromises' = {i \in 1..Len(collectedDtsFiles) : NeedsDtsFetch(collectedDtsFiles[i])}
    /\ log' = [log EXCEPT !.dtsFetched =
                  LET Needs(d) == NeedsDtsFetch(d)
                      started == SelectSeq(collectedDtsFiles, Needs)
                  IN [i \in 1..Len(started) |-> started[i].denoTypesUrl]]
    /\ pc' = "fetchDts"
    /\ UNCHANGED << files, project, cache, cacheExists, newCacheData, todo, newFetched,
                    remoteImports, needsAmbientModuleImportSpecifiers, parsedImportMaps,
                    npmImports, filePaths, collectedDtsFiles, outcome, atStart >>

\* src/mod.js 810-824: a fetch completes and the text is written beside
\* the module the directive stands on.
DtsFetched(i) ==
    /\ pc = "fetchDts"
    /\ i \in dtsFetchPromises
    /\ LET dts == collectedDtsFiles[i]
           dtsDestination ==
               resolveModuleSpecifierAll(parsedImportMaps, dts.vendorFilePath, dts.moduleSpecifier)
       IN vendorTree' =
              IF dtsDestination = Null THEN vendorTree
              ELSE Merge(vendorTree,
                         [x \in {DtsDestinationPath(fromFileUrl(dtsDestination))} |->
                             RemoteSource(dts.denoTypesUrl)])
    /\ dtsFetchPromises' = dtsFetchPromises \ {i}
    /\ UNCHANGED << cacheFile, typeFiles, tsconfigFile, ambientFile, tmpImportMapFile,
                    project, pc, cache, cacheExists, newCacheData, todo, newFetched,
                    remoteImports, needsAmbientModuleImportSpecifiers, parsedImportMaps,
                    npmImports, filePaths, collectedDtsFiles, outcome, log, atStart >>

\* A join that rejects as soon as one task rejects (Promise.all): the
\* rejection leaves generateTypes as an error.
DtsFetchFails_RejectsJoin(i) ==
    /\ pc = "fetchDts"
    /\ i \in dtsFetchPromises
    /\ log' = [log EXCEPT !.dtsFailed = @ \cup {i}]
    /\ pc' = "returned"
    /\ outcome' = "stopped"
    /\ LocalsForgotten
    /\ UNCHANGED << files, project, atStart >>

\* The fetch or the write of one task fails: its promise rejects, and
\* Promise.allSettled (src/mod.js 828) takes that as settled.
DtsFetchFails(i) ==
    /\ pc = "fetchDts"
    /\ i \in dtsFetchPromises
    /\ dtsFetchPromises' = dtsFetchPromises \ {i}
    /\ log' = [log EXCEPT !.dtsFailed = @ \cup {i}]
    /\ UNCHANGED << files, project, pc, cache, cacheExists, newCacheData, todo, newFetched,
                    remoteImports, needsAmbientModuleImportSpecifiers, parsedImportMaps,
                    npmImports, filePaths, collectedDtsFiles, outcome, atStart >>

\* src/mod.js 828, 860-872: all tasks settled; the ambient module file is
\* written when an excluded specifier is imported.
WriteAmbientModules ==
    /\ pc = "fetchDts"
    /\ dtsFetchPromises = {}
    /\ IF Len(needsAmbientModuleImportSpecifiers) > 0
       THEN /\ ambientFile' = [exists |-> TRUE, lines |-> needsAmbientModuleImportSpecifiers]
            /\ log' = [log EXCEPT !.wroteAmbient = TRUE]
       ELSE UNCHANGED << ambientFile, log >>
    /\ pc' = "tsconfig"
    /\ UNCHANGED << cacheFile, typeFiles, vendorTree, tsconfigFile, tmpImportMapFile,
                    project, locals, outcome, atStart >>

\* A pair for every remote import, resolved into the vendor tree or not.
RemoteTsConfigPaths_Unfiltered(imports, maps) ==
    [i \in 1..Len(imports) |->
        << imports[i].importSpecifier,
           IF resolveModuleSpecifierAll(maps, imports[i].importerFilePath,
                                        imports[i].resolvedSpecifier) = Null
           THEN imports[i].resolvedSpecifier
           ELSE fromFileUrl(resolveModuleSpecifierAll(maps, imports[i].importerFilePath,
                                                      imports[i].resolvedSpecifier)) >>]

\* src/mod.js 874-887: the [specifier, path] pairs of the remote imports
\* that resolve into the vendor tree, in the order of the imports.
RemoteTsConfigPaths(imports, maps) ==
    LET Resolves(imp) ==
            resolveModuleSpecifierAll(maps, imp.importerFilePath, imp.resolvedSpecifier) # Null
        kept == SelectSeq(imports, Resolves)
    IN [i \in 1..Len(kept) |->
          << kept[i].importSpecifier,
             fromFileUrl(resolveModuleSpecifierAll(maps, kept[i].importerFilePath,
                                                   kept[i].resolvedSpecifier)) >>]

\* The entries of a Map as [key, value] pairs.
Entries(map) == LET keys == Keys(map) IN [i \in 1..Len(keys) |-> << keys[i], map[keys[i]] >>]

\* src/mod.js 874-898: remote imports, then exactTypeModules, then npm.
tsConfigPaths ==
    RemoteTsConfigPaths(remoteImports, parsedImportMaps)
        \o Entries(fetchedExactTypeModulesPathMappings)
        \o Entries(npmImports)

\* An assignment that leaves a key that already has a value as it is.
RECURSIVE AssignPaths_FirstWins(_, _)
AssignPaths_FirstWins(pathsObject, pairs) ==
    IF pairs = << >> THEN pathsObject
    ELSE AssignPaths_FirstWins(
            IF Head(pairs)[1] \in DOMAIN pathsObject THEN pathsObject
            ELSE Merge(pathsObject, [x \in {Head(pairs)[1]} |-> << Head(pairs)[2] >>]),
            Tail(pairs))

\* src/mod.js 902-904: tsConfigPathsObject[url] = [path], in order.
RECURSIVE AssignPaths(_, _)
AssignPaths(pathsObject, pairs) ==
    IF pairs = << >> THEN pathsObject
    ELSE AssignPaths(Merge(pathsObject, [x \in {Head(pairs)[1]} |-> << Head(pairs)[2] >>]),
                     Tail(pairs))

\* The extraPaths option (src/mod.js 193); no entries when it is not given.
extraPaths == IF "extraPaths" \in DOMAIN options THEN options.extraPaths ELSE EmptyObj

\* src/mod.js 905-907: tsConfigPathsObject[url] = paths for every entry of
\* extraPaths.
AssignExtraPaths(pathsObject, extra) == Merge(pathsObject, extra)

\* A start from an empty paths object whatever tsconfig.json holds.
ExistingTsConfigPaths_Dropped(file) == EmptyObj

\* src/mod.js 832-852: the paths of the existing tsconfig.json are the start.
ExistingTsConfigPaths(file) == IF file.exists THEN file.paths ELSE EmptyObj

\* src/mod.js 830-918
WriteTsconfig ==
    /\ pc = "tsconfig"
    /\ tsconfigFile' = [exists |-> TRUE,
                        paths |-> AssignExtraPaths(
                                     AssignPaths(ExistingTsConfigPaths(tsconfigFile),
                                                 tsConfigPaths),
                                     extraPaths)]
    /\ log' = [log EXCEPT !.wroteTsconfig = TRUE]
    /\ pc' = "saveCache"
    /\ UNCHANGED << cacheFile, typeFiles, vendorTree, ambientFile, tmpImportMapFile,
                    project, locals, outcome, atStart >>

\* src/mod.js 922: the resolved specifiers of this run.
VendoredImportsOf(imports) == {imports[i].resolvedSpecifier : i \in 1..Len(imports)}

\* src/mod.js 920-928
SaveVendoredImports ==
    /\ pc = "saveCache"
    /\ updateCacheData([x \in {"vendoredImports"} |-> VendoredImportsOf(remoteImports)])
    /\ pc' = "returned"
    /\ outcome' = "completed"
    /\ UNCHANGED << typeFiles, vendorTree, tsconfigFile, ambientFile, tmpImportMapFile,
                    project, cache, cacheExists, todo, newFetched, remoteImports,
                    needsAmbientModuleImportSpecifiers, parsedImportMaps, npmImports,
                    filePaths, collectedDtsFiles, dtsFetchPromises, log, atStart >>

\* The process dies, or an awaited operation throws, at any step of a run.
Stop ==
    /\ pc \notin {"idle", "returned"}
    /\ pc' = "returned"
    /\ outcome' = "stopped"
    /\ LocalsForgotten
    /\ UNCHANGED << files, project, log, atStart >>

\* The process has exited: what is left of the run is what is on disk.
\* (Whether the run went past the reset step stays on record for the
\* properties about the run that follows.)
Exit ==
    /\ pc = "returned"
    /\ pc' = "idle"
    /\ LocalsForgotten
    /\ log' = [EmptyLog EXCEPT !.passedReset = log.passedReset]
    /\ atStart' = NotRunning
    /\ UNCHANGED << files, project, outcome >>

Next ==
    \/ \E excludeUrls \in ExcludeUrlsChoices, imports \in UserImportsChoices :
            EditProject(excludeUrls, imports)
    \/ StartRun
    \/ GenerateDenoTypes
    \/ SaveDenoTypesVersion
    \/ ResetTypeRoots
    \/ FetchTypeRoot
    \/ SaveTypeRoots
    \/ ResetExactTypeModules
    \/ FetchExactTypeModule
    \/ SaveExactTypeModules
    \/ CollectImports
    \/ ResetVendoredImports
    \/ WriteTemporaryImportMap
    \/ SkipCached
    \/ \E registryData \in RegistryDataChoices : FetchNpmTypes(registryData)
    \/ Vendor
    \/ VendorFails
    \/ RemoveTemporaryImportMap
    \/ \E filePath \in DOMAIN vendorTree : SkipVendoredFile(filePath)
    \/ \E filePath \in DOMAIN vendorTree : ModifyVendoredFile(filePath)
    \/ StartDtsFetches
    \/ \E i \in 1..Len(collectedDtsFiles) : DtsFetched(i)
    \/ \E i \in 1..Len(collectedDtsFiles) : DtsFetchFails(i)
    \/ WriteAmbientModules
    \/ WriteTsconfig
    \/ SaveVendoredImports
    \/ Stop
    \/ Exit

Spec == Init /\ [][Next]_vars

\* ------------------------------------------------------ createCacheHashFile

\* The options object a CI script passes to createCacheHashFile and to
\* generateTypes alike.
CacheHashFileName == "cacheHash.txt"
PreCollectedImportsFileName == "preCollectedImports.json"

CiOptions(excludeUrls) ==
    [excludeUrls |-> excludeUrls,
     extraTypeRoots |-> ProjectTypeRoots,
     exactTypeModules |-> ProjectExactTypeModules,
     cacheHashFile |-> CacheHashFileName,
     preCollectedImportsFile |-> PreCollectedImportsFileName]

\* Two ways of writing the same options object.
OptionsKeyOrders ==
    { << "excludeUrls", "extraTypeRoots", "exactTypeModules",
         "cacheHashFile", "preCollectedImportsFile" >>,
      << "cacheHashFile", "preCollectedImportsFile",
         "excludeUrls", "extraTypeRoots", "exactTypeModules" >> }

\* src/mod.js 142-166: the text of the cache hash file.
cacheHashContent(keys, opts, collectedImportData) ==
    [options |-> StringifyOptions(keys, opts),
     resolvedSpecifiers |->
        Sorted({collectedImportData.remoteImports[i].resolvedSpecifier :
                    i \in 1..Len(collectedImportData.remoteImports)}),
     ambientModuleSpecifiers |->
        Sorted(Range(collectedImportData.needsAmbientModuleImportSpecifiers))]

\* src/mod.js 119-140: the imports are collected.
CreateCacheHashFile ==
    /\ pc = "idle"
    /\ "cacheHashFile" \in DOMAIN options
    /\ LET collected == collectImports(userImports, options.excludeUrls, UserImportMap)
       IN /\ remoteImports' = collected.remoteImports
          /\ needsAmbientModuleImportSpecifiers' = collected.needsAmbientModuleImportSpecifiers
    /\ pc' = "writeCacheHashFile"
    /\ outcome' = "running"
    /\ UNCHANGED << files, project, cache, cacheExists, newCacheData, todo, newFetched,
                    parsedImportMaps, npmImports, filePaths, collectedDtsFiles,
                    dtsFetchPromises, log, atStart >>

\* src/mod.js 142-170
WriteCacheHashFile ==
    /\ pc = "writeCacheHashFile"
    /\ hashFile' =
          [exists |-> TRUE,
           content |-> cacheHashContent(optionsKeys, options,
                          [remoteImports |-> remoteImports,
                           needsAmbientModuleImportSpecifiers |->
                               needsAmbientModuleImportSpecifiers])]
    /\ IF "preCollectedImportsFile" \in DOMAIN options
       THEN pc' = "writePreCollectedImports" /\ outcome' = outcome
       ELSE pc' = "returned" /\ outcome' = "hashed"
    /\ UNCHANGED << files, options, userImports, runs, edits, edited, userProject, optionsKeys,
                    denoVersion, preCollectedFile, locals, log, atStart >>

\* src/mod.js 172-178
WritePreCollectedImports ==
    /\ pc = "writePreCollectedImports"
    /\ preCollectedFile' =
          [exists |-> TRUE,
           text |-> StringifyImportData(
                       [remoteImports |-> remoteImports,
                        needsAmbientModuleImportSpecifiers |->
                            needsAmbientModuleImportSpecifiers])]
    /\ pc' = "returned"
    /\ outcome' = "hashed"
    /\ UNCHANGED << files, options, userImports, runs, edits, edited, userProject, optionsKeys,
                    denoVersion, hashFile, locals, log, atStart >>

\* The process dies while Deno.writeTextFile (src/mod.js 174) is writing:
\* the file is left empty or with the beginning of the text.
WritePreCollectedImportsInterrupted(text) ==
    /\ pc = "writePreCollectedImports"
    /\ preCollectedFile' = [exists |-> TRUE, text |-> text]
    /\ pc' = "returned"
    /\ outcome' = "stopped"
    /\ LocalsForgotten
    /\ UNCHANGED << files, options, userImports, runs, edits, edited, userProject, optionsKeys,
                    denoVersion, hashFile, log, atStart >>

\* Between two calls the script is rewritten with the keys of the options
\* object in another order; every option keeps its value.
ReorderOptions(keys) ==
    /\ pc = "idle"
    /\ keys # optionsKeys
    /\ optionsKeys' = keys
    /\ UNCHANGED << files, options, userImports, runs, edits, edited, userProject,
                    denoVersion, hashFile, preCollectedFile, pc, locals, outcome, log, atStart >>

Reverse(s) == [i \in 1..Len(s) |-> s[Len(s) + 1 - i]]

\* Between two calls the import statements move, so that the collector
\* meets the same statements in another order.
ReorderImports ==
    /\ pc = "idle"
    /\ Reverse(userImports) # userImports
    /\ userImports' = Reverse(userImports)
    /\ UNCHANGED << files, options, runs, edits, edited, surroundings,
                    pc, locals, outcome, log, atStart >>

\* Between two calls another Deno release is installed.
InstallDeno(version) ==
    /\ pc = "idle"
    /\ version # denoVersion
    /\ denoVersion' = version
    /\ UNCHANGED << files, options, userImports, runs, edits, edited, userProject,
                    optionsKeys, hashFile, preCollectedFile, pc, locals, outcome, log, atStart >>

\* A CI job on a fresh checkout: the script calls createCacheHashFile and
\* generateTypes with one options object.
InitCi ==
    /\ cacheFile = [exists |-> FALSE, data |-> EmptyObj]
    /\ typeFiles = EmptyObj
    /\ vendorTree = EmptyObj
    /\ tsconfigFile = [exists |-> FALSE, paths |-> EmptyObj]
    /\ ambientFile = [exists |-> FALSE, lines |-> << >>]
    /\ tmpImportMapFile = [exists |-> FALSE, imports |-> EmptyObj]
    /\ \E excludeUrls \in ExcludeUrlsChoices : options = CiOptions(excludeUrls)
    /\ userImports \in UserImportsChoices
    /\ runs = 0
    /\ edits = 0
    /\ edited = FALSE
    /\ optionsKeys \in OptionsKeyOrders
    /\ denoVersion \in DenoVersions
    /\ hashFile = [exists |-> FALSE, content |-> EmptyObj]
    /\ preCollectedFile = [exists |-> FALSE, text |-> NoText]
    /\ userTree = {}
    /\ userFiles = << >>
    /\ resolveCall = NoCall
    /\ pc = "idle"
    /\ cache = EmptyObj
    /\ cacheExists = FALSE
    /\ newCacheData = EmptyObj
    /\ todo = << >>
    /\ newFetched = EmptyObj
    /\ remoteImports = << >>
    /\ needsAmbientModuleImportSpecifiers = << >>
    /\ parsedImportMaps = << >>
    /\ npmImports = EmptyObj
    /\ filePaths = << >>
    /\ collectedDtsFiles = << >>
    /\ dtsFetchPromises = {}
    /\ outcome = "none"
    /\ log = EmptyLog
    /\ atStart = NotRunning

\* createCacheHashFile, and generateTypes up to the imports it works on;
\* past that step only the end of the process is followed.
NextCi ==
    \/ CreateCacheHashFile
    \/ WriteCacheHashFile
    \/ WritePreCollectedImports
    \/ \E text \in InterruptedWriteTexts : WritePreCollectedImportsInterrupted(text)
    \/ \E keys \in OptionsKeyOrders : ReorderOptions(keys)
    \/ ReorderImports
    \/ \E version \in DenoVersions : InstallDeno(version)
    \/ StartRun
    \/ GenerateDenoTypes
    \/ SaveDenoTypesVersion
    \/ ResetTypeRoots
    \/ FetchTypeRoot
    \/ SaveTypeRoots
    \/ ResetExactTypeModules
    \/ FetchExactTypeModule
    \/ SaveExactTypeModules
    \/ CollectImports
    \/ Stop
    \/ Exit

SpecCi == InitCi /\ [][NextCi]_vars

\* ------------------------------------------------------------ observations

\* The run has returned normally (it completed, or it took the early exit).
RunReturned == pc = "returned" /\ outcome \in {"completed", "earlyExit"}

\* The vendor loop of the run is over and the run has not stopped.
PastVendorLoop ==
    \/ pc \in {"modify", "fetchDts", "tsconfig", "saveCache"}
    \/ pc = "returned" /\ outcome = "completed"

\* The run is past the early-exit check and has not stopped.
PastEarlyExit ==
    \/ pc \in {"resetVendoredImports", "writeTemporaryImportMap", "vendor"}
    \/ PastVendorLoop

\* The entry points of the vendor / registry operations started by the run.
OpEntries == {log.vendorOps[i].entry : i \in DOMAIN log.vendorOps}

\* The resolved specifiers the run collected.
CollectedResolved == {remoteImports[i].resolvedSpecifier : i \in DOMAIN remoteImports}

\* The vendoredImports property of a cache file, if it has one.
PersistedVendoredImports(file) ==
    IF file.exists /\ "vendoredImports" \in DOMAIN file.data
    THEN << TRUE, file.data.vendoredImports >>
    ELSE << FALSE, {} >>

\* What an import statement resolves to under the user's import map.
ResolvedOf(imp) ==
    resolveModuleSpecifier(UserImportMap, imp.importerFilePath, imp.importSpecifier)

\* The module of a resolved specifier is on disk in the output directory.
ModuleVendored(url) ==
    IF Protocol(url) = "npm:" THEN PathNpmTypes \in DOMAIN typeFiles
    ELSE VendorPath(url) \in DOMAIN vendorTree

\* How often a kind of line occurs in a file.
CountLines(content, kind) == Cardinality({i \in DOMAIN content : content[i].kind = kind})

\* The index of the first non-shebang line of a file.
FirstNonShebang(content) ==
    IF Len(content) > 0 /\ content[1].kind = "shebang" THEN 2 ELSE 1

\* The previous run stopped between the reset step and the final cache
\* write, and the project has not changed since.
AfterInterruptedRun ==
    atStart.outcome = "stopped" /\ atStart.passedReset /\ atStart.sameInputs

\* The previous run returned normally and the project has not changed since.
AfterReturnedRun ==
    atStart.outcome \in {"completed", "earlyExit"} /\ atStart.sameInputs

\* ------------------------------------------------------------------ claims

\* C1: when a run stopped after the "reset vendoredImports" step and before
\* the final cache write, the next run on the same inputs does not take the
\* early exit, and once its vendor loop is over it has started a vendor or
\* registry operation for every distinct resolved specifier it collected.
C1_ReVendorsAfterInterruptedRun ==
    AfterInterruptedRun =>
        /\ outcome # "earlyExit"
        /\ PastVendorLoop => OpEntries = CollectedResolved

C1_Witness ==
    /\ AfterInterruptedRun
    /\ pc = "modify"
    /\ cacheExists
    /\ "vendoredImports" \in DOMAIN cache
    /\ Cardinality(OpEntries) = 2

\* C2: a run in which every collected resolved specifier is in the
\* vendoredImports loaded at its start goes no further than the early-exit
\* check, and when it returns there it has started no vendor or registry
\* operation, rewritten no vendored file, written neither tsconfig.json nor
\* the ambient module file, and left the persisted vendoredImports as found.
C2_EarlyExitFrame ==
    /\ (pc = "returned" /\ outcome = "earlyExit") =>
          /\ log.vendorOps = << >>
          /\ log.rewritten = {}
          /\ ~log.wroteTsconfig
          /\ ~log.wroteAmbient
          /\ vendorTree = atStart.files[3]
          /\ tsconfigFile = atStart.files[4]
          /\ ambientFile = atStart.files[5]
          /\ PersistedVendoredImports(cacheFile) = PersistedVendoredImports(atStart.files[1])
    /\ PastEarlyExit => ~(CollectedResolved \subseteq cachedImportSpecifiers)

C2_Witness ==
    /\ pc = "returned"
    /\ outcome = "earlyExit"
    /\ remoteImports # << >>
    /\ PersistedVendoredImports(cacheFile)[2] # {}

\* C3 (as stated): after a run that returned normally, every collected
\* remote import whose resolved module is on disk in the output directory
\* has its literal specifier as a key of the tsconfig.json paths, mapped to
\* paths under the output directory.
C3_TsconfigKeyForEveryVendoredImport ==
    RunReturned =>
        \A i \in DOMAIN remoteImports :
            ModuleVendored(remoteImports[i].resolvedSpecifier) =>
                /\ tsconfigFile.exists
                /\ remoteImports[i].importSpecifier \in DOMAIN tsconfigFile.paths
                /\ \A k \in DOMAIN tsconfigFile.paths[remoteImports[i].importSpecifier] :
                      InOutputDir(tsconfigFile.paths[remoteImports[i].importSpecifier][k])

\* C4: in a run that goes past the early-exit check, no entry point is
\* vendored twice, none is in the vendoredImports loaded at the start, and
\* once the loop is over the operations started are exactly the distinct
\* collected resolved specifiers that were not in the loaded set.
C4_OneOperationPerUncachedUrl ==
    (pc = "vendor" \/ PastVendorLoop) =>
        /\ \A i, j \in DOMAIN log.vendorOps :
              log.vendorOps[i].entry = log.vendorOps[j].entry => i = j
        /\ OpEntries \cap cachedImportSpecifiers = {}
        /\ OpEntries \subseteq CollectedResolved
        /\ PastVendorLoop => OpEntries = CollectedResolved \ cachedImportSpecifiers

C4_Witness ==
    /\ pc = "modify"
    /\ Len(remoteImports) = 2
    /\ remoteImports[1].resolvedSpecifier = remoteImports[2].resolvedSpecifier
    /\ remoteImports[1].importerFilePath # remoteImports[2].importerFilePath
    /\ Len(log.vendorOps) = 1

\* C5: when a run returns normally in a project that has not changed since
\* the previous run returned normally, every file of the vendor tree has the
\* content it had after that previous run.
C5_RunLevelIdempotence ==
    (RunReturned /\ AfterReturnedRun) => vendorTree = atStart.files[3]

C5_Witness ==
    /\ RunReturned
    /\ AfterReturnedRun
    /\ atStart.outcome = "completed"
    /\ PathA \in DOMAIN vendorTree
    /\ PathBdts \in DOMAIN vendorTree

\* C6 (amended): the rewriter leaves a file it has already rewritten as it
\* is (the file is not parsed, so nothing is collected from it, and not
\* written), no file of the vendor tree ever carries a second sentinel or a
\* second "// @ts-nocheck" line, and the rewritten state is detected by the
\* sentinel occurring anywhere in the file: a parsable file without it is
\* rewritten, a file with it is skipped wherever the sentinel stands.
C6_RewriterStep ==
    /\ \A p \in DOMAIN vendorTree' :
          /\ CountLines(vendorTree'[p], "modifiedComment") <= 1
          /\ CountLines(vendorTree'[p], "tsNocheck") <= 1
    /\ (pc = "modify" /\ pc' = "modify" /\ filePaths # << >>) =>
          LET filePath == Head(filePaths)
              content == vendorTree[filePath]
          IN /\ CountLines(content, "modifiedComment") > 0 =>
                  /\ vendorTree' = vendorTree
                  /\ collectedDtsFiles' = collectedDtsFiles
                  /\ filePath \notin log'.rewritten
             /\ (CountLines(content, "modifiedComment") = 0 /\ ScriptKind(filePath) # "none") =>
                  /\ filePath \in log'.rewritten
                  /\ CountLines(vendorTree'[filePath], "modifiedComment") = 1

C6_RewrittenFileLeftAlone == [][C6_RewriterStep]_vars

C6_Witness ==
    /\ pc = "modify"
    /\ \E p \in log.visited \ log.rewritten :
          /\ ScriptKind(p) # "none"
          /\ CountLines(vendorTree[p], "modifiedComment") = 1
          /\ CountLines(vendorTree[p], "tsNocheck") = 1

\* C6 (as stated): as above, but the rewritten state is detected by the
\* sentinel standing on the first non-shebang line: every parsable file the
\* rewriter skips has the sentinel there.
C6_OriginalStep ==
    /\ \A p \in DOMAIN vendorTree' :
          /\ CountLines(vendorTree'[p], "modifiedComment") <= 1
          /\ CountLines(vendorTree'[p], "tsNocheck") <= 1
    /\ (pc = "modify" /\ pc' = "modify" /\ filePaths # << >>) =>
          LET filePath == Head(filePaths)
              content == vendorTree[filePath]
          IN (ScriptKind(filePath) # "none" /\ filePath \notin log'.rewritten) =>
                  /\ vendorTree' = vendorTree
                  /\ Len(content) >= FirstNonShebang(content)
                  /\ content[FirstNonShebang(content)] = modifiedComment

C6_DetectedOnFirstNonShebangLine == [][C6_OriginalStep]_vars

\* C7 (amended): while the rewriter runs, every file it has written starts,
\* after the shebang line if there is one, with "// @ts-nocheck" directly
\* followed by the sentinel line, and a shebang line is nowhere but on line
\* one.
C7_SentinelFollowsNocheck ==
    pc = "modify" =>
        \A p \in log.rewritten :
            LET content == vendorTree[p]
                first == FirstNonShebang(content)
            IN /\ Len(content) > first
               /\ content[first] = tsNocheck
               /\ content[first + 1] = modifiedComment
               /\ \A i \in DOMAIN content : content[i].kind = "shebang" => i = 1

C7_Witness ==
    /\ pc = "modify"
    /\ PathB \in log.rewritten
    /\ vendorTree[PathB][1].kind = "shebang"
    /\ PathA \in log.rewritten

\* C7 (as stated): every file the rewriter has written has the sentinel as
\* the first line after the shebang line, or as the very first line when
\* there is no shebang; a shebang line stays line one.
C7_SentinelFirstAfterShebang ==
    pc = "modify" =>
        \A p \in log.rewritten :
            LET content == vendorTree[p]
                first == FirstNonShebang(content)
            IN /\ Len(content) >= first
               /\ content[first] = modifiedComment
               /\ \A i \in DOMAIN content : content[i].kind = "shebang" => i = 1

\* C8 (amended): no vendor or registry operation has an entry point that
\* is listed in excludeUrls, and every entry point is the resolved URL of an
\* import statement whose literal specifier and whose resolved URL are both
\* not listed: an import that an exclusion entry matches, by its text or by
\* its resolved URL, never gives rise to an operation.
C8_NoFetchOfExcludedImport ==
    \A k \in DOMAIN log.vendorOps :
        /\ log.vendorOps[k].entry \notin options.excludeUrls
        /\ \E i \in DOMAIN userImports :
              /\ ResolvedOf(userImports[i]) = log.vendorOps[k].entry
              /\ userImports[i].importSpecifier \notin options.excludeUrls
              /\ ResolvedOf(userImports[i]) \notin options.excludeUrls

C8_Witness ==
    /\ pc = "modify"
    /\ options.excludeUrls = {UrlA}
    /\ \E i \in DOMAIN userImports : userImports[i].importSpecifier = AliasA
    /\ Len(log.vendorOps) = 1

\* C8 (as stated): for every import statement whose literal specifier or
\* whose resolved URL is listed in excludeUrls, no vendor or registry
\* operation is started with that specifier or with its resolved URL as
\* entry point.
C8_NoFetchOfExcludedSpecifierOrItsUrl ==
    \A i \in DOMAIN userImports :
        (userImports[i].importSpecifier \in options.excludeUrls
            \/ ResolvedOf(userImports[i]) \in options.excludeUrls) =>
                \A k \in DOMAIN log.vendorOps :
                    log.vendorOps[k].entry \notin
                        {userImports[i].importSpecifier, ResolvedOf(userImports[i])}

\* C9 (as stated): after a run that returned normally, the ambient module
\* file holds exactly one declaration line for every specifier of
\* excludeUrls that matches an import, by its text or by its resolved URL.
C9_OneDeclarationPerExcludedSpecifier ==
    RunReturned =>
        \A s \in options.excludeUrls :
            (\E i \in DOMAIN userImports :
                userImports[i].importSpecifier = s \/ ResolvedOf(userImports[i]) = s) =>
                    /\ ambientFile.exists
                    /\ Cardinality({k \in DOMAIN ambientFile.lines : ambientFile.lines[k] = s}) = 1

\* C10 (as stated): after a run that returned normally, no specifier of
\* excludeUrls is a key of the tsconfig.json paths.
C10_NoPathEntryForExcludedSpecifier ==
    RunReturned =>
        \A s \in options.excludeUrls :
            ~(tsconfigFile.exists /\ s \in DOMAIN tsconfigFile.paths)

\* The keys the run computes for the tsconfig.json paths.
ComputedPathKeys == {tsConfigPaths[i][1] : i \in DOMAIN tsConfigPaths}

\* C11: a step that writes tsconfig.json over an existing one keeps every
\* paths entry of the existing file, except that an entry whose key the run
\* computes takes the computed value; no step removes the file or a key, so
\* the key set never shrinks.
C11_Step ==
    tsconfigFile.exists =>
        /\ tsconfigFile'.exists
        /\ \A k \in DOMAIN tsconfigFile.paths :
              /\ k \in DOMAIN tsconfigFile'.paths
              /\ k \notin ComputedPathKeys => tsconfigFile'.paths[k] = tsconfigFile.paths[k]

C11_ExistingPathsPreserved == [][C11_Step]_vars

C11_Witness ==
    /\ pc = "saveCache"
    /\ log.wroteTsconfig
    /\ atStart.files[4].exists
    /\ \E k \in DOMAIN atStart.files[4].paths :
          /\ k \in {AliasA, UrlA, UrlN}
          /\ k \notin ComputedPathKeys
          /\ k \in DOMAIN tsconfigFile.paths
          /\ tsconfigFile.paths[k] = atStart.files[4].paths[k]
    /\ DOMAIN tsconfigFile.paths # DOMAIN atStart.files[4].paths

\* C12 (as stated): after a run that returned normally, every specifier of
\* the exactTypeModules option is a key of the tsconfig.json paths, mapped
\* to its index.d.ts under exactTypes/.
C12_ExactTypeModulesHavePaths ==
    RunReturned =>
        \A specifier \in DOMAIN options.exactTypeModules :
            /\ tsconfigFile.exists
            /\ specifier \in DOMAIN tsconfigFile.paths
            /\ tsconfigFile.paths[specifier] = << ExactTypesFilePath(specifier) >>

\* A step of the vendor loop that starts a vendor or registry operation.
VendorOperationStep ==
    /\ pc = "vendor"
    /\ Len(log'.vendorOps) = Len(log.vendorOps) + 1

\* C13 (as stated): a vendor operation never ends the run, also when a
\* sub-resource of its entry point fails to fetch: the run stays under way
\* and goes on with the remaining resolved specifiers.
C13_Step == VendorOperationStep => outcome' = "running" /\ pc' = "vendor"

C13_VendorFailureDoesNotAbort == [][C13_Step]_vars

\* The declaration-fetch tasks that rejected in the step.
NewlyFailed == log'.dtsFailed \ log.dtsFailed

\* The tasks that ran to their end: started, settled, not rejected.
DtsTaskCompleted(i) ==
    /\ NeedsDtsFetch(collectedDtsFiles[i])
    /\ i \notin dtsFetchPromises
    /\ i \notin log.dtsFailed

\* The file a task writes, Null when the module it stands on is not resolved.
DtsDestinationOf(dts) ==
    LET dtsDestination ==
            resolveModuleSpecifierAll(parsedImportMaps, dts.vendorFilePath, dts.moduleSpecifier)
    IN IF dtsDestination = Null THEN Null ELSE DtsDestinationPath(fromFileUrl(dtsDestination))

C14_Step ==
    (pc = "fetchDts" /\ NewlyFailed # {}) =>
        /\ outcome' = "running"
        /\ pc' = "fetchDts"
        /\ dtsFetchPromises' = dtsFetchPromises \ NewlyFailed
        /\ UNCHANGED files

C14_Settled ==
    pc \in {"tsconfig", "saveCache"} =>
        /\ dtsFetchPromises = {}
        /\ \A i \in 1..Len(collectedDtsFiles) :
              (DtsTaskCompleted(i) /\ DtsDestinationOf(collectedDtsFiles[i]) # Null) =>
                  /\ DtsDestinationOf(collectedDtsFiles[i]) \in DOMAIN vendorTree
                  /\ vendorTree[DtsDestinationOf(collectedDtsFiles[i])]
                         = RemoteSource(collectedDtsFiles[i].denoTypesUrl)

\* C14: a declaration-fetch task that rejects leaves the run under way and
\* every other task pending and undisturbed; the run goes past the join only
\* when every task has settled, and then each task that did not reject has
\* written its .d.ts file.
C14_DeclarationFetchesJoinedTolerantly == [][C14_Step]_vars /\ []C14_Settled

C14_Witness ==
    /\ pc = "returned"
    /\ outcome = "completed"
    /\ log.wroteTsconfig
    /\ log.dtsFailed = {1}
    /\ log.dtsFetched = << UrlBdts, UrlAdts >>
    /\ PathAdts \notin DOMAIN atStart.files[3]
    /\ PathAdts \in DOMAIN vendorTree
    /\ vendorTree[PathAdts] = RemoteSource(UrlAdts)
    /\ PathBdts \notin DOMAIN vendorTree

C16_WitnessNoTypes ==
    /\ pc = "saveCache"
    /\ UrlN \in DOMAIN log.declaresTypes
    /\ ~log.declaresTypes[UrlN]
    /\ UrlN \notin DOMAIN tsconfigFile.paths

\* The import record does not resolve, through the import maps of this
\* run's vendor operations, to a file inside the output directory.
NotResolvedInTree(imp) ==
    resolveModuleSpecifierAll(parsedImportMaps, imp.importerFilePath, imp.resolvedSpecifier) = Null

EndsInTs(specifier) == specifier \in {"./a.ts", "./b.ts", PathA, PathB}

\* C18 (as stated): a file the rewriter has written in this run holds no
\* import or export specifier ending in ".ts".
C18_NoTsSpecifierAfterRewrite ==
    pc = "modify" =>
        \A filePath \in log.rewritten :
            \A i \in 1..Len(vendorTree[filePath]) :
                vendorTree[filePath][i].kind = "import" => ~EndsInTs(vendorTree[filePath][i].text)

\* The file at the path is written by the step.
TypeFileWritten(path) == Get(typeFiles', path, "") # Get(typeFiles, path, "")

\* C15 (as stated): a step that writes a file of one of the four categories
\* (Deno types, extra type roots, exact type modules, vendoring) finds the
\* persisted cache file recording nothing of that category as done.
C15_Step ==
    /\ TypeFileWritten(PathDenoTypes) => "denoTypesVersion" \notin DOMAIN cacheFile.data
    /\ TypeFileWritten(PathTypeRoot) => Get(cacheFile.data, "fetchedTypeRoots", EmptyObj) = EmptyObj
    /\ TypeFileWritten(PathExactTypes) =>
           Get(cacheFile.data, "fetchedExactTypeModules", EmptyObj) = EmptyObj
    /\ (vendorTree' # vendorTree \/ TypeFileWritten(PathNpmTypes)) =>
           Get(cacheFile.data, "vendoredImports", {}) = {}

C15_ClearBeforeMutate == [][C15_Step]_vars

\* C19 (as stated): the option values and the import statements of the
\* project stay what they are while only the order of the option keys and
\* the order in which the imports are met change, so every later
\* createCacheHashFile writes the content the file already has.
C19_Step == (hashFile.exists /\ hashFile'.exists) => hashFile'.content = hashFile.content

C19_HashContentIndependentOfOrder == [][C19_Step]_vars

\* The part of the content made of the specifiers is the same whatever the
\* orders are.
C19_SpecifierLinesStep ==
    (hashFile.exists /\ hashFile'.exists) =>
        /\ hashFile'.content.resolvedSpecifiers = hashFile.content.resolvedSpecifiers
        /\ hashFile'.content.ambientModuleSpecifiers = hashFile.content.ambientModuleSpecifiers

C19_SpecifierLinesIndependentOfOrder == [][C19_SpecifierLinesStep]_vars

\* The step in which generateTypes settles where its imports come from.
SettlesImports == pc = "collect" /\ log'.importsFrom # log.importsFrom

\* What collectImports returns for the project, and what it returned when
\* it met the same statements in the other order.
CollectedEitherOrder ==
    { collectImports(userImports, options.excludeUrls, UserImportMap),
      collectImports(Reverse(userImports), options.excludeUrls, UserImportMap) }

UsesCollected(data) ==
    /\ remoteImports' = data.remoteImports
    /\ needsAmbientModuleImportSpecifiers' = data.needsAmbientModuleImportSpecifiers

CollectsItself ==
    /\ log'.importsFrom = "collectImports"
    /\ UsesCollected(collectImports(userImports, options.excludeUrls, UserImportMap))

FailsAsCorrupt ==
    /\ log'.importsFrom = "corrupt"
    /\ pc' = "returned"
    /\ outcome' = "stopped"

UsesPreCollected ==
    /\ log'.importsFrom = "preCollectedImportsFile"
    /\ \E data \in CollectedEitherOrder : UsesCollected(data)

\* C20 (as stated): with the preCollectedImportsFile option, generateTypes
\* collects itself when the file is absent, fails when the file is not valid
\* JSON, and otherwise parses no source file and works on the records
\* collectImports returned to createCacheHashFile.
C20_StepAsStated ==
    SettlesImports =>
        IF ~preCollectedFile.exists THEN CollectsItself
        ELSE IF ~preCollectedFile.text.parses THEN FailsAsCorrupt
        ELSE UsesPreCollected

C20_PreCollectedRoundTripAsStated == [][C20_StepAsStated]_vars

\* C20 (amended): an empty file counts as absent; only a file that is not
\* empty and is not valid JSON makes generateTypes fail.
C20_Step ==
    SettlesImports =>
        IF ~preCollectedFile.exists \/ preCollectedFile.text.empty THEN CollectsItself
        ELSE IF ~preCollectedFile.text.parses THEN FailsAsCorrupt
        ELSE UsesPreCollected

C20_PreCollectedRoundTrip == [][C20_Step]_vars

C20_Witness ==
    /\ pc = "resetVendoredImports"
    /\ log.importsFrom = "preCollectedImportsFile"
    /\ Len(remoteImports) = 2
    /\ remoteImports[1].importSpecifier = AliasA
    /\ remoteImports[1].resolvedSpecifier = UrlA
    /\ remoteImports[2].resolvedSpecifier = UrlN
    /\ preCollectedFile.text.value.remoteImports[1].resolvedSpecifier = UrlText(UrlA)

\* ------------------------------------------- the files of the user's project

\* The files that may lie below the project directory /proj, each as the
\* list of its path components.
UserFileF1 == << "f1.js" >>
UserFileNotes == << "notes.md" >>
UserFileModule == << "node_modules", "m.js" >>
UserFileF2 == << "src", "f2.ts" >>
UserFileGen == << "src", "gen.js" >>
UserFileNested == << "src", "node_modules", "n.js" >>

UserFileChoices ==
    { UserFileF1, UserFileNotes, UserFileModule, UserFileF2, UserFileGen, UserFileNested }

\* path.resolve(baseDir, ...components)
JoinPath(components) ==
    CASE components = << >> -> "/proj"
      [] components = << "src" >> -> "/proj/src"
      [] components = UserFileF1 -> "/proj/f1.js"
      [] components = UserFileNotes -> "/proj/notes.md"
      [] components = UserFileModule -> "/proj/node_modules/m.js"
      [] components = UserFileF2 -> "/proj/src/f2.ts"
      [] components = UserFileGen -> "/proj/src/gen.js"
      [] components = UserFileNested -> "/proj/src/node_modules/n.js"

\* The order in which Deno.readDir lists the names of this universe.
ReadDirOrder ==
    << "f1.js", "f2.ts", "gen.js", "m.js", "n.js", "node_modules", "notes.md", "src" >>

IsPrefix(dirPath, components) ==
    /\ Len(dirPath) <= Len(components)
    /\ \A i \in 1..Len(dirPath) : dirPath[i] = components[i]

\* Deno.readDir(dirPath): the names directly below dirPath, and whether
\* each is a directory.
DirEntryNames(tree, dirPath) ==
    { f[Len(dirPath) + 1] : f \in {g \in tree : IsPrefix(dirPath, g) /\ Len(g) > Len(dirPath)} }

IsDirectory(tree, components) ==
    \E f \in tree : IsPrefix(components, f) /\ Len(f) > Len(components)

Exists(tree, components) == components \in tree \/ IsDirectory(tree, components)

\* src/src/common.js 78-81: the filter of getIncludeExcludeFiles.
ExcludeFilter(exclude, name) == name \notin exclude

\* src/src/common.js 24-33: the entries of dirPath in listing order; an
\* entry the filter rejects is skipped, a directory is listed by a call that
\* is given no filter, a file is yielded.
RECURSIVE readDirRecursiveFiles(_, _, _, _, _)
readDirRecursiveFiles(tree, dirPath, hasFilter, exclude, names) ==
    IF names = << >> THEN << >>
    ELSE LET name == Head(names)
             entryPath == Append(dirPath, name)
             here ==
                IF name \notin DirEntryNames(tree, dirPath) THEN << >>
                ELSE IF hasFilter /\ ~ExcludeFilter(exclude, name) THEN << >>
                ELSE IF IsDirectory(tree, entryPath)
                     THEN readDirRecursiveFiles(tree, entryPath, FALSE, exclude, ReadDirOrder)
                     ELSE << entryPath >>
         IN here \o readDirRecursiveFiles(tree, dirPath, hasFilter, exclude, Tail(names))

\* filePath.endsWith(extension) for one of the extensions "js", "ts", "d.ts"
HasValidExtension(components) ==
    components[Len(components)] \in {"f1.js", "f2.ts", "gen.js", "m.js", "n.js"}

\* src/src/common.js 63-99
RECURSIVE getIncludeExcludeFiles(_, _, _)
getIncludeExcludeFiles(tree, include, exclude) ==
    IF include = << >> THEN << >>
    ELSE LET includePath == Head(include)
             found ==
                IF IsDirectory(tree, includePath)
                THEN SelectSeq(readDirRecursiveFiles(tree, includePath, TRUE, exclude,
                                                     ReadDirOrder),
                               HasValidExtension)
                ELSE << includePath >>
         IN found \o getIncludeExcludeFiles(tree, Tail(include), exclude)

\* What the included files hold: import declarations, export ... from
\* declarations and import() calls; the specifier of a call is a string
\* literal or an expression computed at run time.
ImportForm(form, literal, text) == [form |-> form, literal |-> literal, text |-> text]

UserFileContent(components) ==
    CASE components = UserFileF1 ->
            << ImportForm("import", TRUE, AliasA),
               ImportForm("call", TRUE, UrlA),
               ImportForm("call", FALSE, "base + name"),
               ImportForm("import", TRUE, "./local.js") >>
      [] components = UserFileNotes -> << >>
      [] components = UserFileModule -> << ImportForm("import", TRUE, UrlB) >>
      [] components = UserFileF2 ->
            << ImportForm("export", TRUE, UrlN),
               ImportForm("import", TRUE, AliasA) >>
      [] components = UserFileGen ->
            << ImportForm("call", TRUE, UrlA),
               ImportForm("import", TRUE, UrlA) >>
      [] components = UserFileNested -> << ImportForm("import", TRUE, UrlB) >>

\* A collector that records import declarations only, as a traversal that
\* tests ts.isImportDeclaration(node) does.
SourceFileImports_DeclarationsOnly(content) ==
    LET Declaration(f) == f.literal /\ f.form = "import"
        literals == SelectSeq(content, Declaration)
    IN [i \in 1..Len(literals) |-> literals[i].text]

\* sourceFile.imports of the program TypeScript creates for one file
\* (src/src/parseFileAst.js 27-56): the string literals that are the module
\* specifier of a declaration or the argument of an import() call, in
\* source order.
SourceFileImports(content) ==
    LET Literal(f) == f.literal
        literals == SelectSeq(content, Literal)
    IN [i \in 1..Len(literals) |-> literals[i].text]

\* src/src/collectImports.js 169-183: the records of one user file.
ImportsOfUserFile(userFile) ==
    LET imports == SourceFileImports(UserFileContent(userFile))
    IN [i \in 1..Len(imports) |-> ImportData(JoinPath(userFile), imports[i])]

\* The include and exclude options tried; the defaults are ["."] and
\* [".denoTypes", "node_modules"].
IncludeChoices == { << << >> >>, << << "src" >>, UserFileF1 >>, << UserFileNotes >> }
ExcludeChoices == { {}, {".denoTypes", "node_modules"}, {".denoTypes", "node_modules", "gen.js"} }

CollectOptions(include, exclude, excludeUrls) ==
    [include |-> include, exclude |-> exclude, excludeUrls |-> excludeUrls]

\* src/src/collectImports.js 146-162: collectImports is called and lists
\* the included files; Deno.stat of an include path that does not exist
\* throws.
GetIncludeExcludeFiles ==
    /\ pc = "idle"
    /\ "include" \in DOMAIN options
    /\ runs < MaxRuns
    /\ runs' = runs + 1
    /\ userImports' = << >>
    /\ IF \A i \in 1..Len(options.include) : Exists(userTree, options.include[i])
       THEN /\ userFiles' = getIncludeExcludeFiles(userTree, options.include, options.exclude)
            /\ todo' = userFiles'
            /\ pc' = "parseUserFiles"
            /\ outcome' = "running"
       ELSE /\ userFiles' = << >>
            /\ todo' = << >>
            /\ pc' = "returned"
            /\ outcome' = "stopped"
    /\ UNCHANGED << files, options, edits, edited, optionsKeys, denoVersion, hashFile,
                    preCollectedFile, userTree, resolveCall, cache, cacheExists, newCacheData,
                    newFetched, remoteImports, needsAmbientModuleImportSpecifiers,
                    parsedImportMaps, npmImports, filePaths, collectedDtsFiles,
                    dtsFetchPromises, log, atStart >>

\* src/src/collectImports.js 169-183: one turn of the loop over the user
\* files.
ParseUserFile ==
    /\ pc = "parseUserFiles"
    /\ todo # << >>
    /\ userImports' = userImports \o ImportsOfUserFile(Head(todo))
    /\ todo' = Tail(todo)
    /\ UNCHANGED << files, options, runs, edits, edited, surroundings, pc, cache,
                    cacheExists, newCacheData, newFetched, remoteImports,
                    needsAmbientModuleImportSpecifiers, parsedImportMaps, npmImports,
                    filePaths, collectedDtsFiles, dtsFetchPromises, outcome, log, atStart >>

\* src/src/collectImports.js 185-215
ReturnCollectedImports ==
    /\ pc = "parseUserFiles"
    /\ todo = << >>
    /\ LET collected == collectImports(userImports, options.excludeUrls, UserImportMap)
       IN /\ remoteImports' = collected.remoteImports
          /\ needsAmbientModuleImportSpecifiers' = collected.needsAmbientModuleImportSpecifiers
    /\ pc' = "returned"
    /\ outcome' = "collected"
    /\ UNCHANGED << files, project, cache, cacheExists, newCacheData, todo, newFetched,
                    parsedImportMaps, npmImports, filePaths, collectedDtsFiles,
                    dtsFetchPromises, log, atStart >>

\* Between two calls a file of the project is added or removed.
EditUserTree(file) ==
    /\ pc = "idle"
    /\ edits < MaxEdits
    /\ edits' = edits + 1
    /\ userTree' = IF file \in userTree THEN userTree \ {file} ELSE userTree \cup {file}
    /\ UNCHANGED << files, options, userImports, runs, edited, optionsKeys, denoVersion,
                    hashFile, preCollectedFile, userFiles, resolveCall, pc, locals, outcome, log, atStart >>

\* A project directory and the options collectImports is called with.
InitCollect ==
    /\ cacheFile = [exists |-> FALSE, data |-> EmptyObj]
    /\ typeFiles = EmptyObj
    /\ vendorTree = EmptyObj
    /\ tsconfigFile = [exists |-> FALSE, paths |-> EmptyObj]
    /\ ambientFile = [exists |-> FALSE, lines |-> << >>]
    /\ tmpImportMapFile = [exists |-> FALSE, imports |-> EmptyObj]
    /\ \E include \in IncludeChoices, exclude \in ExcludeChoices,
          excludeUrls \in ExcludeUrlsChoices :
            options = CollectOptions(include, exclude, excludeUrls)
    /\ userImports = << >>
    /\ runs = 0
    /\ edits = 0
    /\ edited = FALSE
    /\ optionsKeys = << "include", "exclude", "excludeUrls" >>
    /\ denoVersion = "1.28.0"
    /\ hashFile = [exists |-> FALSE, content |-> EmptyObj]
    /\ preCollectedFile = [exists |-> FALSE, text |-> NoText]
    /\ userTree \in SUBSET UserFileChoices
    /\ userFiles = << >>
    /\ resolveCall = NoCall
    /\ pc = "idle"
    /\ cache = EmptyObj
    /\ cacheExists = FALSE
    /\ newCacheData = EmptyObj
    /\ todo = << >>
    /\ newFetched = EmptyObj
    /\ remoteImports = << >>
    /\ needsAmbientModuleImportSpecifiers = << >>
    /\ parsedImportMaps = << >>
    /\ npmImports = EmptyObj
    /\ filePaths = << >>
    /\ collectedDtsFiles = << >>
    /\ dtsFetchPromises = {}
    /\ outcome = "none"
    /\ log = EmptyLog
    /\ atStart = NotRunning

NextCollect ==
    \/ GetIncludeExcludeFiles
    \/ ParseUserFile
    \/ ReturnCollectedImports
    \/ \E file \in UserFileChoices : EditUserTree(file)
    \/ Stop
    \/ Exit

SpecCollect == InitCollect /\ [][NextCollect]_vars

\* A path component below the include root it was found under is an entry
\* of the exclude list.
HasExcludedComponent(file) ==
    \E k \in 1..Len(file) :
        /\ \E i \in 1..Len(options.include) :
              /\ IsPrefix(options.include[i], file)
              /\ IsDirectory(userTree, options.include[i])
              /\ k > Len(options.include[i])
        /\ file[k] \in options.exclude

\* C21: no file that getIncludeExcludeFiles returns for an include path that
\* is a directory has, at any depth below the include root, a path
\* component that is an entry of the exclude list.
C21_NoExcludedComponent ==
    \A i \in 1..Len(userFiles) : ~HasExcludedComponent(userFiles[i])

\* collectImports has returned.
ImportsCollected == pc = "returned" /\ outcome = "collected"

\* The number of elements of a sequence that satisfy a test.
CountOf(seq, Test(_)) == Len(SelectSeq(seq, Test))

LiteralFormsOf(file, text) ==
    LET Is(f) == f.literal /\ f.text = text
    IN CountOf(UserFileContent(file), Is)

RecordsOf(file, text) ==
    LET Is(imp) == imp = ImportData(JoinPath(file), text)
    IN CountOf(userImports, Is)

SpecifierTexts ==
    UNION { { UserFileContent(file)[i].text : i \in 1..Len(UserFileContent(file)) } :
                file \in UserFileChoices }

\* C22: the collector records one import record for every import of an
\* included file whose specifier is a string literal, an import() call with
\* a string literal argument included, and none for a specifier computed at
\* run time; the record of a literal import() of a remote module that is not
\* excluded is among the remote imports that generateTypes vendors.
C22_OneRecordPerLiteralImport ==
    ImportsCollected =>
        /\ \A k \in 1..Len(userFiles), text \in SpecifierTexts :
              RecordsOf(userFiles[k], text) = LiteralFormsOf(userFiles[k], text)
        /\ \A i \in 1..Len(userImports) :
              \E k \in 1..Len(userFiles) :
                 /\ userImports[i].importerFilePath = JoinPath(userFiles[k])
                 /\ LiteralFormsOf(userFiles[k], userImports[i].importSpecifier) > 0
        /\ \A k \in 1..Len(userFiles) :
              \A j \in 1..Len(UserFileContent(userFiles[k])) :
                 LET f == UserFileContent(userFiles[k])[j]
                 IN /\ ~f.literal =>
                        \A i \in 1..Len(userImports) : userImports[i].importSpecifier # f.text
                    /\ (f.form = "call" /\ f.literal /\ Protocol(f.text) # "file:"
                          /\ f.text \notin options.excludeUrls) =>
                        \E i \in 1..Len(remoteImports) :
                           /\ remoteImports[i].importerFilePath = JoinPath(userFiles[k])
                           /\ remoteImports[i].importSpecifier = f.text

\* collectImports returned for a file with an import() of a literal, an
\* import() of a computed specifier and import declarations.
C22_Witness ==
    /\ ImportsCollected
    /\ \E k \in 1..Len(userFiles) : userFiles[k] = UserFileF1
    /\ \E i \in 1..Len(remoteImports) :
          /\ remoteImports[i].importerFilePath = "/proj/f1.js"
          /\ remoteImports[i].importSpecifier = UrlA

\* The resolution of a collected record against the user's import map, and
\* the three conditions under which a record is remote.
ResolvedHref(imp) ==
    resolveModuleSpecifier(UserImportMap, imp.importerFilePath, imp.importSpecifier)

IsRemoteRecord(imp) ==
    /\ imp.importSpecifier \notin options.excludeUrls
    /\ ResolvedHref(imp) \notin options.excludeUrls
    /\ Protocol(ResolvedHref(imp)) # "file:"

RemoteIndices == { i \in 1..Len(userImports) : IsRemoteRecord(userImports[i]) }

\* C23: remoteImports holds exactly the collected records whose literal
\* specifier is not in excludeUrls, whose resolved href is not in
\* excludeUrls and whose resolved protocol is not "file:", in collection
\* order and with every duplicate kept; needsAmbientModuleImportSpecifiers
\* is the duplicate-free list of the collected literal specifiers that are
\* in excludeUrls.
C23_RemoteImportsAndAmbientSpecifiers ==
    ImportsCollected =>
        /\ Len(remoteImports) = Cardinality(RemoteIndices)
        /\ \A k \in 1..Len(remoteImports) :
              \E i \in RemoteIndices :
                 /\ Cardinality({ j \in RemoteIndices : j <= i }) = k
                 /\ remoteImports[k].importerFilePath = userImports[i].importerFilePath
                 /\ remoteImports[k].importSpecifier = userImports[i].importSpecifier
                 /\ remoteImports[k].resolvedSpecifier = ResolvedHref(userImports[i])
        /\ Range(needsAmbientModuleImportSpecifiers) =
              { userImports[i].importSpecifier : i \in 1..Len(userImports) }
                 \cap options.excludeUrls
        /\ \A i, j \in 1..Len(needsAmbientModuleImportSpecifiers) :
              needsAmbientModuleImportSpecifiers[i] = needsAmbientModuleImportSpecifiers[j]
                 => i = j

\* collectImports returned with a duplicate remote record kept, a local
\* import dropped and an excluded literal that two files import.
C23_Witness ==
    /\ ImportsCollected
    /\ \E i, j \in 1..Len(remoteImports) : i < j /\ remoteImports[i] = remoteImports[j]
    /\ \E i \in 1..Len(userImports) : Protocol(ResolvedHref(userImports[i])) = "file:"
    /\ \E i, j \in 1..Len(userImports) :
          /\ i < j
          /\ userImports[i].importSpecifier = userImports[j].importSpecifier
          /\ userImports[i].importSpecifier \in options.excludeUrls
    /\ Len(needsAmbientModuleImportSpecifiers) = 1

\* The persisted entries of a category of the cache file.
PersistedTypeRoots == Get(cacheFile.data, "fetchedTypeRoots", EmptyObj)
PersistedExactTypeModules == Get(cacheFile.data, "fetchedExactTypeModules", EmptyObj)
PersistedVendored == Get(cacheFile.data, "vendoredImports", {})

\* The declaration file of a type root / exact type module is on disk with
\* the text fetched from the url.
TypeRootBacked(folderName, url) == Get(typeFiles, TypeRootFilePath(folderName), "") = url
ExactTypesBacked(specifier, url) == Get(typeFiles, ExactTypesFilePath(specifier), "") = url

\* The module of a resolved specifier is on disk, its file is rewritten and
\* tsconfig.json is written.
VendoredBacked(url) ==
    /\ ModuleVendored(url)
    /\ Protocol(url) # "npm:" => IncludesModifiedComment(vendorTree[VendorPath(url)])
    /\ tsconfigFile.exists

VendorWorkDone(url) ==
    /\ Protocol(url) # "npm:" =>
          /\ VendorPath(url) \in DOMAIN vendorTree
          /\ IncludesModifiedComment(vendorTree[VendorPath(url)])
    /\ (Protocol(url) = "npm:" /\ Get(log.declaresTypes, url, FALSE)) =>
          PathNpmTypes \in DOMAIN typeFiles
    /\ tsconfigFile.exists

DtsFetchStarts == dtsFetchPromises' \ dtsFetchPromises # {}

\* A step in which the rewriter adds to the collected type-comment
\* references.
CollectsDtsReference ==
    Len(collectedDtsFiles') > Len(collectedDtsFiles)

\* C25: no fetch of an inline-directive declaration starts before the
\* rewriter has visited every file of the vendor output tree, and the list
\* of collected type-comment references does not grow once a fetch has
\* started.
C25_Step ==
    /\ DtsFetchStarts =>
          /\ filePaths = << >>
          /\ DOMAIN vendorTree \subseteq log.visited
          /\ collectedDtsFiles' = collectedDtsFiles
    /\ CollectsDtsReference =>
          /\ dtsFetchPromises = {}
          /\ log.dtsFetched = << >>

DtsModuleTexts(name) ==
    { << Line("denoTypes", url), Line("import", specifier), Line("code", name) >> :
        url \in {UrlAdts, UrlBdts}, specifier \in {"./a.ts", "./b.ts"} }
        \cup { << Line("code", name) >> }

\* The state generateTypes is in when its rewriter has visited the vendor
\* tree of a first run that vendored https://x/a.ts, for modules a.ts and
\* b.ts with the given texts (src/mod.js 186-793).
AfterRewriter(textA, textB) ==
    LET maps == << VendorImportMap(UrlA, {}) >>
        cached == [denoTypesVersion |-> "1.28.0",
                   fetchedTypeRoots |-> ProjectTypeRoots,
                   fetchedExactTypeModules |-> ProjectExactTypeModules]
    IN /\ cacheFile = [exists |-> TRUE, data |-> cached]
       /\ newCacheData = cached
       /\ typeFiles = [p \in {PathDenoTypes, PathTypeRoot, PathExactTypes} |->
                          CASE p = PathDenoTypes -> "1.28.0"
                            [] p = PathTypeRoot -> TypeRootUrl
                            [] p = PathExactTypes -> ExactUrl]
       /\ vendorTree = [p \in {PathImportMap, PathA, PathB} |->
                           CASE p = PathImportMap -> << Line("json", UrlA) >>
                             [] p = PathA -> ModifiedContent(textA, PathA, maps)
                             [] p = PathB -> ModifiedContent(textB, PathB, maps)]
       /\ parsedImportMaps = maps
       /\ collectedDtsFiles = CollectedDtsOf(textA, PathA) \o CollectedDtsOf(textB, PathB)
       /\ userImports = << ImportData("/proj/f2.js", UrlA) >>
       /\ remoteImports =
             collectRemoteImports(<< ImportData("/proj/f2.js", UrlA) >>, {}, UserImportMap)
       /\ newFetched = ProjectExactTypeModules
       /\ log = [EmptyLog EXCEPT !.vendorOps = << Op("vendor", UrlA) >>,
                                 !.visited = {PathImportMap, PathA, PathB},
                                 !.rewritten = {PathA, PathB},
                                 !.importsFrom = "collectImports",
                                 !.passedReset = TRUE]

InitDts ==
    /\ \E textA \in DtsModuleTexts("a"), textB \in DtsModuleTexts("b") :
          AfterRewriter(textA, textB)
    /\ tsconfigFile = [exists |-> FALSE, paths |-> EmptyObj]
    /\ ambientFile = [exists |-> FALSE, lines |-> << >>]
    /\ tmpImportMapFile = [exists |-> FALSE, imports |-> EmptyObj]
    /\ options = Options({}, ProjectTypeRoots, ProjectExactTypeModules)
    /\ runs = 1
    /\ edits = 0
    /\ edited = FALSE
    /\ optionsKeys = << "excludeUrls", "extraTypeRoots", "exactTypeModules" >>
    /\ denoVersion = "1.28.0"
    /\ hashFile = [exists |-> FALSE, content |-> EmptyObj]
    /\ preCollectedFile = [exists |-> FALSE, text |-> NoText]
    /\ userTree = {}
    /\ userFiles = << >>
    /\ resolveCall = NoCall
    /\ pc = "modify"
    /\ cache = EmptyObj
    /\ cacheExists = FALSE
    /\ todo = << >>
    /\ needsAmbientModuleImportSpecifiers = << >>
    /\ npmImports = EmptyObj
    /\ filePaths = << >>
    /\ dtsFetchPromises = {}
    /\ outcome = "running"
    /\ atStart = [files |-> << [exists |-> FALSE, data |-> EmptyObj], EmptyObj, EmptyObj,
                               [exists |-> FALSE, paths |-> EmptyObj],
                               [exists |-> FALSE, lines |-> << >>],
                               [exists |-> FALSE, imports |-> EmptyObj] >>,
                  outcome |-> "none", sameInputs |-> TRUE, passedReset |-> FALSE]

\* The declaration-fetch tasks and their join; past the join only the end
\* of the process is followed.
NextDts ==
    \/ StartDtsFetches
    \/ \E i \in dtsFetchPromises : DtsFetched(i)
    \/ \E i \in dtsFetchPromises : DtsFetchFails(i)
    \/ WriteAmbientModules
    \/ Stop
    \/ Exit

SpecDts == InitDts /\ [][NextDts]_vars

\* The join is over: every task has settled.
DtsJoined == pc = "tsconfig"

\* The declaration files the tasks that did not fail leave when each task
\* runs to its end before the next one starts, in the order of the list.
RECURSIVE DtsWrittenInListOrder(_, _)
DtsWrittenInListOrder(tree, n) ==
    IF n = 0 THEN tree
    ELSE LET before == DtsWrittenInListOrder(tree, n - 1)
             dts == collectedDtsFiles[n]
             destination == DtsDestinationOf(dts)
         IN IF n \in log.dtsFailed \/ ~NeedsDtsFetch(dts) \/ destination = Null
            THEN before
            ELSE Merge(before, [x \in {destination} |-> RemoteSource(dts.denoTypesUrl)])

ModulesOf(tree) == [p \in DOMAIN tree \cap {PathImportMap, PathA, PathB} |-> tree[p]]

\* C26: the files present in the vendor tree after the declaration-fetch
\* join do not depend on the order in which the tasks complete: they are
\* the files that the tasks leave when run one after the other.
C26_TreeIndependentOfCompletionOrder ==
    DtsJoined =>
        vendorTree = DtsWrittenInListOrder(ModulesOf(vendorTree), Len(collectedDtsFiles))

\* ------------------------------------------------ resolveModuleSpecifierAll

\* A remote module that the project's import map replaces by a local file.
UrlD == "https://x/d.ts"
UrlL == "https://x/l.ts"

\* The import maps `deno vendor` may leave in vendor/import_map.json: the
\* map of the vendored graph, and maps with the rules for local files that
\* it takes over from the import map it was given (a stub in the output
\* directory, a file of the project, a file of the vendor tree).
ParsedImportMapChoices ==
    { VendorImportMap(UrlA, {}),
      [u \in {UrlD, UrlL} |->
          IF u = UrlD THEN "file:///proj/.denoTypes/dummyModule.js"
          ELSE "file:///proj/local.js"],
      [u \in {UrlD, UrlL} |->
          IF u = UrlD THEN "file:///proj/.denoTypes/vendor/x/a.ts"
          ELSE "file:///proj/.denoTypes/vendor/x/b.ts"] }

ParsedImportMapsChoices ==
    { << >> } \cup { << m >> : m \in ParsedImportMapChoices }
        \cup { << m, n >> : m \in ParsedImportMapChoices, n \in ParsedImportMapChoices }

ResolveBaseChoices == {PathA, PathB}
ResolveSpecifierChoices == {"./a.ts", "./b.ts", UrlA, UrlB, UrlD, UrlL, UrlN}

\* src/mod.js 634-645: one call of resolveModuleSpecifierAll.
CallResolveModuleSpecifierAll(basePath, moduleSpecifier) ==
    /\ pc = "resolve"
    /\ resolveCall' = [baseUrl |-> basePath,
                       moduleSpecifier |-> moduleSpecifier,
                       resolved |-> resolveModuleSpecifierAll(parsedImportMaps, basePath,
                                                              moduleSpecifier)]
    /\ UNCHANGED << files, options, userImports, runs, edits, edited, optionsKeys,
                    denoVersion, hashFile, preCollectedFile, userTree, userFiles,
                    pc, locals, outcome, log, atStart >>

\* generateTypes with the import maps of its vendor operations parsed.
InitResolve ==
    /\ cacheFile = [exists |-> FALSE, data |-> EmptyObj]
    /\ typeFiles = EmptyObj
    /\ vendorTree = EmptyObj
    /\ tsconfigFile = [exists |-> FALSE, paths |-> EmptyObj]
    /\ ambientFile = [exists |-> FALSE, lines |-> << >>]
    /\ tmpImportMapFile = [exists |-> FALSE, imports |-> EmptyObj]
    /\ options = Options({}, EmptyObj, EmptyObj)
    /\ userImports = << >>
    /\ runs = 1
    /\ edits = 0
    /\ edited = FALSE
    /\ optionsKeys = << "excludeUrls", "extraTypeRoots", "exactTypeModules" >>
    /\ denoVersion = "1.28.0"
    /\ hashFile = [exists |-> FALSE, content |-> EmptyObj]
    /\ preCollectedFile = [exists |-> FALSE, text |-> NoText]
    /\ userTree = {}
    /\ userFiles = << >>
    /\ resolveCall = NoCall
    /\ pc = "resolve"
    /\ cache = EmptyObj
    /\ cacheExists = FALSE
    /\ newCacheData = EmptyObj
    /\ todo = << >>
    /\ newFetched = EmptyObj
    /\ remoteImports = << >>
    /\ needsAmbientModuleImportSpecifiers = << >>
    /\ parsedImportMaps \in ParsedImportMapsChoices
    /\ npmImports = EmptyObj
    /\ filePaths = << >>
    /\ collectedDtsFiles = << >>
    /\ dtsFetchPromises = {}
    /\ outcome = "running"
    /\ log = EmptyLog
    /\ atStart = NotRunning

NextResolve ==
    \E basePath \in ResolveBaseChoices, moduleSpecifier \in ResolveSpecifierChoices :
        CallResolveModuleSpecifierAll(basePath, moduleSpecifier)

SpecResolve == InitResolve /\ [][NextResolve]_vars

\* What the i-th recorded map makes of the arguments of the call.
ResolutionOf(i) ==
    resolveModuleSpecifier(parsedImportMaps[i], resolveCall.baseUrl, resolveCall.moduleSpecifier)

IsFileUrl(url) == Protocol(url) = "file:"

InVendorTree(url) ==
    IsFileUrl(url) /\ fromFileUrl(url) \in {PathImportMap, PathA, PathB, PathAdts, PathBdts}

InOutputDirectory(url) == IsFileUrl(url) /\ InOutputDir(fromFileUrl(url))

WasCalled == resolveCall # NoCall

IsOverlayOfUserImportMap(imports) ==
    LET dummied == options.excludeUrls \cup {"npm:typescript@4.7.4"}
    IN /\ DOMAIN imports = DOMAIN UserImportMap \cup dummied
       /\ \A key \in DOMAIN imports :
             imports[key] = IF key \in dummied THEN dummyUrl ELSE UserImportMap[key]

\* A step in which a vendor or registry operation runs.
VendorOperationRuns == Len(log'.vendorOps) > Len(log.vendorOps)

\* C28: the temporary import map is the user's import map with a rule to
\* the dummy module for every entry of excludeUrls and for the TypeScript
\* specifier, these rules overriding a user rule of the same key; it is
\* written once, before the first vendor operation of the run, and no step
\* in which a vendor operation runs changes it.
C28_Step ==
    /\ (tmpImportMapFile' # tmpImportMapFile /\ tmpImportMapFile'.exists) =>
          /\ log.vendorOps = << >>
          /\ log'.vendorOps = << >>
          /\ IsOverlayOfUserImportMap(tmpImportMapFile'.imports)
    /\ VendorOperationRuns =>
          /\ tmpImportMapFile.exists
          /\ IsOverlayOfUserImportMap(tmpImportMapFile.imports)
          /\ tmpImportMapFile' = tmpImportMapFile

C28_TemporaryImportMap == [][C28_Step]_vars

\* A vendor operation has run under an overlay in which the rule for the
\* excluded specifier "a" replaced the user's rule for "a".
C28_Witness ==
    /\ pc = "vendor"
    /\ Len(log.vendorOps) >= 1
    /\ options.excludeUrls = {AliasA}
    /\ tmpImportMapFile.exists
    /\ tmpImportMapFile.imports[AliasA] = dummyUrl
    /\ UserImportMap[AliasA] # dummyUrl

\* ------------------------------------------------------ the tsconfig paths

\* The keys for which several sources have an entry.
PathKeyChoices == {UrlA, UrlN}

OldPathOf(key) == IF key = UrlA THEN "/old/a.d.ts" ELSE "/old/p.d.ts"
ExtraPathsOf(key) ==
    IF key = UrlA THEN << "/extra/a.d.ts", "/extra/a2.d.ts" >> ELSE << "/extra/p.d.ts" >>

\* The options of a run with exactTypeModules and extraPaths entries for
\* the given keys.
PathsOptions(exactKeys, extraKeys) ==
    [excludeUrls |-> {},
     extraTypeRoots |-> ProjectTypeRoots,
     exactTypeModules |-> [k \in exactKeys |-> ExactUrl],
     extraPaths |-> [k \in extraKeys |-> ExtraPathsOf(k)]]

\* The state generateTypes is in when it comes to write tsconfig.json in a
\* first run (src/mod.js 186-829) for a project with the given imports,
\* over the tsconfig.json that was found.
BeforeTsconfig(imports, existing) ==
    LET collected == collectRemoteImports(imports, {}, UserImportMap)
        vendored == \E i \in 1..Len(collected) : collected[i].resolvedSpecifier = UrlA
        registry == \E i \in 1..Len(collected) : collected[i].resolvedSpecifier = UrlN
        maps == IF vendored THEN << VendorImportMap(UrlA, {}) >> ELSE << >>
        cached == [denoTypesVersion |-> "1.28.0",
                   fetchedTypeRoots |-> ProjectTypeRoots,
                   fetchedExactTypeModules |-> options.exactTypeModules]
        typePaths == {PathDenoTypes, PathTypeRoot}
                        \cup (IF DOMAIN options.exactTypeModules # {} THEN {PathExactTypes} ELSE {})
                        \cup (IF registry THEN {PathNpmTypes} ELSE {})
        vendorPaths == IF vendored THEN {PathImportMap, PathA, PathB, PathAdts, PathBdts} ELSE {}
    IN /\ userImports = imports
       /\ remoteImports = collected
       /\ parsedImportMaps = maps
       /\ npmImports = IF registry THEN [k \in {UrlN} |-> PathNpmTypes] ELSE EmptyObj
       /\ cacheFile = [exists |-> TRUE, data |-> cached]
       /\ newCacheData = cached
       /\ newFetched = options.exactTypeModules
       /\ typeFiles = [p \in typePaths |->
                          CASE p = PathDenoTypes -> "1.28.0"
                            [] p = PathTypeRoot -> TypeRootUrl
                            [] p = PathExactTypes -> ExactUrl
                            [] p = PathNpmTypes -> UrlN]
       /\ vendorTree = [p \in vendorPaths |->
                           CASE p = PathImportMap -> << Line("json", UrlA) >>
                             [] p = PathA -> ModifiedContent(RemoteSource(UrlA), PathA, maps)
                             [] p = PathB -> ModifiedContent(RemoteSource(UrlB), PathB, maps)
                             [] p = PathAdts -> RemoteSource(UrlAdts)
                             [] p = PathBdts -> RemoteSource(UrlBdts)]
       /\ tsconfigFile = existing
       /\ log = [EmptyLog EXCEPT
                    !.vendorOps = (IF vendored THEN << Op("vendor", UrlA) >> ELSE << >>)
                                     \o (IF registry THEN << Op("registry", UrlN) >> ELSE << >>),
                    !.visited = vendorPaths \ {PathAdts, PathBdts},
                    !.rewritten = vendorPaths \cap {PathA, PathB},
                    !.dtsFetched = IF vendored THEN << UrlBdts, UrlAdts >> ELSE << >>,
                    !.declaresTypes = IF registry THEN [k \in {UrlN} |-> TRUE] ELSE << >>,
                    !.importsFrom = "collectImports",
                    !.passedReset = TRUE]
       /\ atStart = [files |-> << [exists |-> FALSE, data |-> EmptyObj], EmptyObj, EmptyObj,
                                  existing,
                                  [exists |-> FALSE, lines |-> << >>],
                                  [exists |-> FALSE, imports |-> EmptyObj] >>,
                     outcome |-> "none", sameInputs |-> TRUE, passedReset |-> FALSE]

ExistingTsconfigChoices ==
    { [exists |-> FALSE, paths |-> EmptyObj] }
        \cup { [exists |-> TRUE, paths |-> [k \in keys |-> << OldPathOf(k) >>]] :
                 keys \in SUBSET PathKeyChoices }

PathsImportsChoices ==
    { << >>,
      << ImportData("/proj/f2.js", UrlA) >>,
      << ImportData("/proj/f2.js", UrlN) >>,
      << ImportData("/proj/f2.js", UrlA), ImportData("/proj/f2.js", UrlN) >> }

InitPaths ==
    /\ \E exactKeys \in SUBSET PathKeyChoices, extraKeys \in SUBSET PathKeyChoices :
          options = PathsOptions(exactKeys, extraKeys)
    /\ \E imports \in PathsImportsChoices, existing \in ExistingTsconfigChoices :
          BeforeTsconfig(imports, existing)
    /\ ambientFile = [exists |-> FALSE, lines |-> << >>]
    /\ tmpImportMapFile = [exists |-> FALSE, imports |-> EmptyObj]
    /\ runs = 1
    /\ edits = 0
    /\ edited = FALSE
    /\ optionsKeys = << "excludeUrls", "extraTypeRoots", "exactTypeModules", "extraPaths" >>
    /\ denoVersion = "1.28.0"
    /\ hashFile = [exists |-> FALSE, content |-> EmptyObj]
    /\ preCollectedFile = [exists |-> FALSE, text |-> NoText]
    /\ userTree = {}
    /\ userFiles = << >>
    /\ resolveCall = NoCall
    /\ pc = "tsconfig"
    /\ cache = EmptyObj
    /\ cacheExists = FALSE
    /\ todo = << >>
    /\ needsAmbientModuleImportSpecifiers = << >>
    /\ filePaths = << >>
    /\ collectedDtsFiles = << >>
    /\ dtsFetchPromises = {}
    /\ outcome = "running"

\* The end of a run from the tsconfig.json write on.
NextPaths ==
    \/ WriteTsconfig
    \/ SaveVendoredImports
    \/ Stop
    \/ Exit

SpecPaths == InitPaths /\ [][NextPaths]_vars

\* The entry each source supplies for a key, if it supplies one.
RemotePathOf(key) ==
    LET pairs == RemoteTsConfigPaths(remoteImports, parsedImportMaps)
        last == CHOOSE i \in 1..Len(pairs) :
                    pairs[i][1] = key /\ \A j \in 1..Len(pairs) : pairs[j][1] = key => j <= i
    IN pairs[last][2]

RemotePathKeys ==
    LET pairs == RemoteTsConfigPaths(remoteImports, parsedImportMaps)
    IN {pairs[i][1] : i \in 1..Len(pairs)}

ExistingPaths == IF atStart.files[4].exists THEN atStart.files[4].paths ELSE EmptyObj

\* The value the stated precedence gives a key.
PathsByPrecedence(key) ==
    IF key \in DOMAIN options.extraPaths THEN options.extraPaths[key]
    ELSE IF key \in DOMAIN npmImports THEN << npmImports[key] >>
    ELSE IF key \in DOMAIN options.exactTypeModules THEN << ExactTypesFilePath(key) >>
    ELSE IF key \in RemotePathKeys THEN << RemotePathOf(key) >>
    ELSE ExistingPaths[key]

TsconfigWritten == pc = "saveCache" /\ log.wroteTsconfig

\* C29: the written paths have a key for every key a source supplies, and
\* the value of a key is the entry of extraPaths if it has one, else that of
\* the registry package, else that of exactTypeModules, else that of the
\* vendored remote import, else that of the tsconfig.json found; a value
\* not taken from extraPaths or the file found is an array of one path.
C29_PathsByPrecedence ==
    TsconfigWritten =>
        /\ DOMAIN tsconfigFile.paths =
              DOMAIN options.extraPaths \cup DOMAIN npmImports
                 \cup DOMAIN options.exactTypeModules \cup RemotePathKeys
                 \cup DOMAIN ExistingPaths
        /\ \A key \in DOMAIN tsconfigFile.paths :
              /\ tsconfigFile.paths[key] = PathsByPrecedence(key)
              /\ (key \notin DOMAIN options.extraPaths
                     /\ key \in DOMAIN npmImports \cup DOMAIN options.exactTypeModules
                                  \cup RemotePathKeys)
                    => Len(tsconfigFile.paths[key]) = 1

\* tsconfig.json is written for keys that all sources supply: the key of
\* the vendored import is in the file found, in exactTypeModules and in
\* extraPaths, the key of the registry package is in the file found and in
\* exactTypeModules.
C29_Witness ==
    /\ TsconfigWritten
    /\ UrlA \in RemotePathKeys \cap DOMAIN options.exactTypeModules
                  \cap DOMAIN ExistingPaths \cap DOMAIN options.extraPaths
    /\ UrlN \in (DOMAIN npmImports \cap DOMAIN options.exactTypeModules
                   \cap DOMAIN ExistingPaths) \ DOMAIN options.extraPaths
    /\ tsconfigFile.paths[UrlN] = << PathNpmTypes >>
    /\ Len(tsconfigFile.paths[UrlA]) = 2

\* ------------------------------------------- the temporary import map file

\* A step in which a vendor operation or a registry fetch of a run that
\* wrote the temporary import map fails, and the run ends by throwing.
VendorOperationThrows ==
    /\ pc = "vendor"
    /\ pc' = "returned"
    /\ outcome' = "stopped"
    /\ Len(log'.vendorOps) = Len(log.vendorOps) + 1

\* C30: when a generateTypes run that wrote tmp_tsc_helper_import_map.json
\* ends, by returning or by throwing because a vendor operation or a
\* registry fetch failed, that file no longer exists.
C30_Step ==
    /\ VendorOperationThrows => ~tmpImportMapFile'.exists
    /\ (pc # "returned" /\ pc' = "returned" /\ outcome' = "completed" /\ log.vendorOps # << >>)
          => ~tmpImportMapFile'.exists

C30_TemporaryImportMapRemoved == [][C30_Step]_vars

====
